---- MODULE Spec2Model ----
(***************************************************************************)
(* StoryMuse lore trigger engine: WorldInfoEntry / WorldInfoDatabase       *)
(* (storymuse/core/worldinfo.py) and ScanState / LoreScanner               *)
(* (storymuse/services/lore_scanner.py).                                   *)
(*                                                                         *)
(* Strings are sequences of one-character strings, so that substring       *)
(* search, case folding, concatenation and strip() are computed and not    *)
(* assumed.  Entries are referred to by their position in the store, the   *)
(* way the Python lists hold references to the entry objects.              *)
(***************************************************************************)
EXTENDS Integers, Sequences, FiniteSets, TLC

(***************************************************************************)
(* Bounds of the model.                                                    *)
(***************************************************************************)
\* number of scan calls in one behaviour
MaxScans == 4
\* largest configured cooldown / sticky / delay of the rules explored
MaxCooldown == 3
MaxSticky == 2
MaxDelay == 2
\* number of scan calls in one behaviour over the stores of several rules
MaxDeepScans == 2
\* number of calls in one behaviour that evaluates the keys of one rule
MaxCalls == 2
\* number of store operations in one behaviour, and the largest store
MaxOps == 3
MaxEntries == 4

\* WorldInfoDatabase.scan_depth: Field(ge=0, le=5)
MaxScanDepth == 5

(***************************************************************************)
(* Text                                                                    *)
(***************************************************************************)
Whitespace == {" ", "\n"}

\* str.lower() on one character of the alphabet used by the stores below
LowerChar(c) ==
    CASE c = "A" -> "a"
      [] c = "B" -> "b"
      [] c = "C" -> "c"
      [] c = "K" -> "k"
      [] c = "I" -> "i"
      [] c = "S" -> "s"
      [] OTHER -> c

Lower(s) == [i \in 1..Len(s) |-> LowerChar(s[i])]

\* Python's  key in text  : key occurs as a contiguous substring
Contains(text, key) ==
    \E i \in 0..(Len(text) - Len(key)) : SubSeq(text, i + 1, i + Len(key)) = key

\* s.strip() == ""
IsBlank(s) == \A i \in 1..Len(s) : s[i] \in Whitespace

(***************************************************************************)
(* WorldInfoEntry                                                          *)
(***************************************************************************)
LogicGate == {"and_any", "and_all", "not_any", "not_all"}

\* An entry with the field defaults of the pydantic model
Rule(uid, key, content) ==
    [ uid |-> uid, key |-> key, keysecondary |-> <<>>, logic |-> "and_any",
      content |-> content, constant |-> FALSE, disabled |-> FALSE,
      order |-> 100, probability |-> 100, group |-> "",
      sticky |-> 0, cooldown |-> 0, delay |-> 0,
      exclude_recursion |-> FALSE ]

IsRegexKey(key) ==
    /\ Len(key) >= 1
    /\ key[1] = "/"
    /\ \E i \in 2..Len(key) : key[i] = "/"

RegexFlagChars == {"g", "i", "m", "s", "u", "x", "y"}

\* the index of the last "/" of key
LastSlash(key) ==
    CHOOSE i \in 2..Len(key) :
        key[i] = "/" /\ \A j \in (i + 1)..Len(key) : key[j] # "/"

\* "$" also matches before one trailing newline
DropFinalNewline(key) ==
    IF key[Len(key)] = "\n" THEN SubSeq(key, 1, Len(key) - 1) ELSE key

\* pattern, flags = match.groups() when the closing slash is at position p
RegexGroups(body, p) ==
    [ pattern |-> SubSeq(body, 2, p - 1), flags |-> SubSeq(body, p + 1, Len(body)) ]

\* re.match(r"^/(.+)/([gimsuxy]*)$", key) succeeds with these groups: the
\* flag characters hold no "/", so the only split is at the last "/", and "."
\* does not match a newline
GroupsMatch(g) ==
    /\ Len(g.pattern) >= 1
    /\ \A i \in 1..Len(g.pattern) : g.pattern[i] # "\n"
    /\ \A i \in 1..Len(g.flags) : g.flags[i] \in RegexFlagChars

Digits == {"0", "1", "2", "3", "4", "5", "6", "7", "8", "9"}

DigitValue(c) ==
    CASE c = "0" -> 0 [] c = "1" -> 1 [] c = "2" -> 2 [] c = "3" -> 3
      [] c = "4" -> 4 [] c = "5" -> 5 [] c = "6" -> 6 [] c = "7" -> 7
      [] c = "8" -> 8 [] c = "9" -> 9

\* the decimal digits of MAXREPEAT = 4294967295, the bound re.compile puts on
\* a repetition count
MaxRepeatDigits == <<"4", "2", "9", "4", "9", "6", "7", "2", "9", "5">>

RECURSIVE StripZeros(_)
\* ds without its leading zeros
StripZeros(ds) ==
    IF ds # <<>> /\ Head(ds) = "0" THEN StripZeros(Tail(ds)) ELSE ds

\* int(lo) >= MAXREPEAT, on the digits without leading zeros
AtLeastMaxRepeat(sig) ==
    \/ Len(sig) > Len(MaxRepeatDigits)
    \/ /\ Len(sig) = Len(MaxRepeatDigits)
       /\ \/ sig = MaxRepeatDigits
          \/ \E i \in 1..Len(sig) :
                /\ DigitValue(sig[i]) > DigitValue(MaxRepeatDigits[i])
                /\ \A j \in 1..(i - 1) : sig[j] = MaxRepeatDigits[j]

RECURSIVE DecimalValue(_, _)
DecimalValue(ds, acc) ==
    IF ds = <<>> THEN acc ELSE DecimalValue(Tail(ds), 10 * acc + DigitValue(Head(ds)))

\* int(lo) of a count below MAXREPEAT; a count of more than four digits is
\* longer than every text and is kept as 10000
RepeatCount(sig) == IF Len(sig) > 4 THEN 10000 ELSE DecimalValue(sig, 0)

RECURSIVE DigitRunEnd(_, _)
\* the last position of the run of digits that starts at position i (i - 1 if
\* there is none)
DigitRunEnd(pattern, i) ==
    IF i <= Len(pattern) /\ pattern[i] \in Digits
    THEN DigitRunEnd(pattern, i + 1) ELSE i - 1

\* a repetition count "{digits}" starts at position i; a "{" that does not
\* start one is a literal
IsRepeatAt(pattern, i) ==
    /\ pattern[i] = "{"
    /\ DigitRunEnd(pattern, i + 1) >= i + 1
    /\ DigitRunEnd(pattern, i + 1) < Len(pattern)
    /\ pattern[DigitRunEnd(pattern, i + 1) + 1] = "}"

\* the last atom of atoms repeated n times
Repeated(atoms, n) ==
    [atoms EXCEPT ![Len(atoms)] = [ch |-> @.ch, n |-> n, repeated |-> TRUE]]

RECURSIVE ParsePattern(_, _, _)
\* re.compile over the patterns the stores use: literal characters, ".", a
\* repetition count "{n}" and an unclosed "(".  atoms holds what was parsed
\* of pattern[1..i-1].  The outcome is "ok", "error" (re.error) or "overflow"
\* (OverflowError: the repetition number is too large, raised as soon as the
\* count is read).
ParsePattern(pattern, i, atoms) ==
    IF i > Len(pattern) THEN [status |-> "ok", atoms |-> atoms]
    ELSE IF pattern[i] = "("
    THEN \* the group is parsed to the end of the pattern before the missing
         \* ")" is reported
         [status |-> IF ParsePattern(pattern, i + 1, <<>>).status = "overflow"
                     THEN "overflow" ELSE "error",
          atoms |-> <<>>]
    ELSE IF IsRepeatAt(pattern, i)
    THEN IF AtLeastMaxRepeat(StripZeros(SubSeq(pattern, i + 1, DigitRunEnd(pattern, i + 1))))
         THEN [status |-> "overflow", atoms |-> <<>>]
         ELSE IF atoms = <<>> \/ atoms[Len(atoms)].repeated
         THEN \* nothing to repeat / multiple repeat; what follows can still
              \* not be compiled
              [status |-> "error", atoms |-> <<>>]
         ELSE ParsePattern(pattern, DigitRunEnd(pattern, i + 1) + 2,
                  Repeated(atoms,
                      RepeatCount(StripZeros(
                          SubSeq(pattern, i + 1, DigitRunEnd(pattern, i + 1))))))
    ELSE ParsePattern(pattern, i + 1,
                      Append(atoms, [ch |-> pattern[i], n |-> 1, repeated |-> FALSE]))

\* re.compile(pattern, flags) returns
PatternCompiles(pattern) == ParsePattern(pattern, 1, <<>>).status = "ok"

\* re.compile(pattern, flags) raises OverflowError, which  except re.error
\* does not catch
PatternOverflows(pattern) == ParsePattern(pattern, 1, <<>>).status = "overflow"

\* parse_regex_key returned None
NoRegex ==
    [ok |-> FALSE, raised |-> FALSE, atoms |-> <<>>, ignorecase |-> FALSE, dotall |-> FALSE]

\* parse_regex_key did not return: the exception of re.compile propagates
RegexRaised == [NoRegex EXCEPT !.raised = TRUE]

\* the compiled pattern: re.IGNORECASE and re.DOTALL from the flag string
\* (re.MULTILINE changes nothing for patterns without anchors)
CompileGroups(g) ==
    IF ~GroupsMatch(g) THEN NoRegex
    ELSE IF PatternOverflows(g.pattern) THEN RegexRaised
    ELSE IF ~PatternCompiles(g.pattern) THEN NoRegex
    ELSE [ ok |-> TRUE, raised |-> FALSE,
           atoms |-> ParsePattern(g.pattern, 1, <<>>).atoms,
           ignorecase |-> \E i \in 1..Len(g.flags) : g.flags[i] = "i",
           dotall |-> \E i \in 1..Len(g.flags) : g.flags[i] = "s" ]

ParseBody(body) ==
    IF ~IsRegexKey(body) THEN NoRegex
    ELSE CompileGroups(RegexGroups(body, LastSlash(body)))

\* parse_regex_key: None (ok = FALSE), the compiled pattern with its flags, or
\* an exception (raised = TRUE)
ParseRegexKey(key) ==
    IF ~IsRegexKey(key) THEN NoRegex ELSE ParseBody(DropFinalNewline(key))

\* one pattern character against one text character
CharMatches(re, p, c) ==
    IF p = "." THEN (re.dotall \/ c # "\n")
    ELSE IF re.ignorecase THEN LowerChar(p) = LowerChar(c)
    ELSE p = c

RECURSIVE TotalLength(_, _)
\* the number of characters a match of atoms[k..] consumes
TotalLength(atoms, k) ==
    IF k > Len(atoms) THEN 0 ELSE atoms[k].n + TotalLength(atoms, k + 1)

RECURSIVE Expand(_, _)
\* atoms[k..] with every repetition written out
Expand(atoms, k) ==
    IF k > Len(atoms) THEN <<>>
    ELSE [i \in 1..atoms[k].n |-> atoms[k].ch] \o Expand(atoms, k + 1)

\* the written-out pattern occurs somewhere in text
SearchExpanded(re, chars, text) ==
    \E i \in 0..(Len(text) - Len(chars)) :
        \A j \in 1..Len(chars) : CharMatches(re, chars[j], text[i + j])

\* regex and regex.search(text): unanchored
RegexSearch(re, text) ==
    /\ re.ok
    /\ TotalLength(re.atoms, 1) <= Len(text)
    /\ SearchExpanded(re, Expand(re.atoms, 1), text)

KeyMatches(text, key) ==
    IF IsRegexKey(key)
    THEN RegexSearch(ParseRegexKey(key), text)
    ELSE Contains(Lower(text), Lower(key))

\* parse_regex_key(key) raises
KeyRaises(key) == IsRegexKey(key) /\ ParseRegexKey(key).raised

\* what matches_text returns when it returns
MatchesText(text, keys) == \E i \in 1..Len(keys) : KeyMatches(text, keys[i])

\* matches_text raises: the loop reaches a key that raises before a key that
\* matches
MatchesTextRaises(text, keys) ==
    \E i \in 1..Len(keys) :
        /\ KeyRaises(keys[i])
        /\ \A j \in 1..(i - 1) : ~KeyMatches(text, keys[j])

\* all(self.matches_text(text, [k]) for k in keys) raises: it reaches a key
\* that raises before a key that does not match
AllMatchRaises(text, keys) ==
    \E i \in 1..Len(keys) :
        /\ KeyRaises(keys[i])
        /\ \A j \in 1..(i - 1) : KeyMatches(text, keys[j])

\* evaluate_trigger raises
EvaluateTriggerRaises(e, text) ==
    IF e.key = <<>> THEN FALSE
    ELSE IF MatchesTextRaises(text, e.key) THEN TRUE
    ELSE IF ~MatchesText(text, e.key) THEN FALSE
    ELSE IF e.keysecondary = <<>> THEN FALSE
    ELSE IF e.logic \in {"and_any", "not_any"}
         THEN MatchesTextRaises(text, e.keysecondary)
         ELSE AllMatchRaises(text, e.keysecondary)

\* evaluate_trigger(text) without the  if not self.key  case: a rule without
\* keys triggers on every text
EvaluateTriggerEmptyKeyMatches(e, text) ==
    IF e.key = <<>> THEN TRUE
    ELSE IF ~MatchesText(text, e.key) THEN FALSE
    ELSE IF e.keysecondary = <<>> THEN TRUE
    ELSE CASE e.logic = "and_any" -> MatchesText(text, e.keysecondary)
           [] e.logic = "and_all" ->
                \A i \in 1..Len(e.keysecondary) : MatchesText(text, <<e.keysecondary[i]>>)
           [] e.logic = "not_any" -> ~MatchesText(text, e.keysecondary)
           [] e.logic = "not_all" ->
                ~(\A i \in 1..Len(e.keysecondary) : MatchesText(text, <<e.keysecondary[i]>>))
           [] OTHER -> FALSE

\* what evaluate_trigger returns when it returns

EvaluateTrigger(e, text) ==
    IF e.key = <<>> THEN FALSE
    ELSE IF ~MatchesText(text, e.key) THEN FALSE
    ELSE IF e.keysecondary = <<>> THEN TRUE
    ELSE CASE e.logic = "and_any" -> MatchesText(text, e.keysecondary)
           [] e.logic = "and_all" ->
                \A i \in 1..Len(e.keysecondary) : MatchesText(text, <<e.keysecondary[i]>>)
           [] e.logic = "not_any" -> ~MatchesText(text, e.keysecondary)
           [] e.logic = "not_all" ->
                ~(\A i \in 1..Len(e.keysecondary) : MatchesText(text, <<e.keysecondary[i]>>))
           [] OTHER -> FALSE

(***************************************************************************)
(* WorldInfoDatabase: db = [entries, scan_depth]                           *)
(***************************************************************************)
RECURSIVE IdxSeq(_, _, _)
\* the members of the index set S within i..n, ascending (a list comprehension
\* over self.entries keeps store order)
IdxSeq(S, i, n) ==
    IF i > n THEN <<>>
    ELSE (IF i \in S THEN <<i>> ELSE <<>>) \o IdxSeq(S, i + 1, n)

\* get_constant_entries without the  e.constant  filter
GetConstantEntriesUnfiltered(db) ==
    IdxSeq({i \in 1..Len(db.entries) : ~db.entries[i].disabled}, 1, Len(db.entries))

GetConstantEntries(db) ==
    IdxSeq({i \in 1..Len(db.entries) : db.entries[i].constant /\ ~db.entries[i].disabled},
           1, Len(db.entries))

\* get_active_entries without the  not e.disabled  filter
GetActiveEntriesAll(db) ==
    IdxSeq({i \in 1..Len(db.entries) : ~db.entries[i].constant}, 1, Len(db.entries))

GetActiveEntries(db) ==
    IdxSeq({i \in 1..Len(db.entries) : ~db.entries[i].constant /\ ~db.entries[i].disabled},
           1, Len(db.entries))

\* the position of the first entry with this uid, 0 if there is none
FirstWithUid(es, uid) ==
    IF \E i \in 1..Len(es) : es[i].uid = uid
    THEN CHOOSE i \in 1..Len(es) :
            es[i].uid = uid /\ \A j \in 1..(i - 1) : es[j].uid # uid
    ELSE 0

\* es without the entry at position i
WithoutAt(es, i) == SubSeq(es, 1, i - 1) \o SubSeq(es, i + 1, Len(es))

\* add_entry: self.entries.append(entry); return entry.uid
AddEntryOutcome(es, entry) == [entries |-> Append(es, entry), value |-> entry.uid]

\* get_entry: the first entry with this uid (as its position), or None (0)
GetEntryOutcome(es, uid) == [entries |-> es, value |-> FirstWithUid(es, uid)]

\* delete_entry filling the gap with the last entry instead of closing it
DeleteEntrySwapRemove(es, uid) ==
    IF FirstWithUid(es, uid) = 0 THEN [entries |-> es, value |-> FALSE]
    ELSE [entries |-> SubSeq([es EXCEPT ![FirstWithUid(es, uid)] = es[Len(es)]],
                             1, Len(es) - 1),
          value |-> TRUE]

\* delete_entry: del self.entries[i] at the first entry with this uid and
\* return True, or return False
DeleteEntryOutcome(es, uid) ==
    IF FirstWithUid(es, uid) = 0 THEN [entries |-> es, value |-> FALSE]
    ELSE [entries |-> WithoutAt(es, FirstWithUid(es, uid)), value |-> TRUE]

SetGroupDisabledEntries(es, group, disabled) ==
    [i \in 1..Len(es) |->
        IF es[i].group = group THEN [es[i] EXCEPT !.disabled = disabled] ELSE es[i]]

(***************************************************************************)
(* ScanState: st = [message_count, cooldowns, sticky_active]; the two      *)
(* dicts are functions whose domain is the set of uids present as keys.    *)
(***************************************************************************)
\* an empty dict
EmptyDict == [u \in {} |-> 0]

FreshScanState ==
    [message_count |-> 0, cooldowns |-> EmptyDict, sticky_active |-> EmptyDict]

\* the counter dict deleting only the keys whose value fell below 0
DecayBelowZero(m) == [u \in {v \in DOMAIN m : ~(m[v] - 1 < 0)} |-> m[u] - 1]

\* one counter dict of advance_message: every value decremented, then the
\* keys whose value became <= 0 deleted
Decay(m) == [u \in {v \in DOMAIN m : ~(m[v] - 1 <= 0)} |-> m[u] - 1]

\* advance_message without the loop that decrements the cooldowns
AdvanceMessageKeepsCooldowns(st) ==
    [ message_count |-> st.message_count + 1,
      cooldowns |-> st.cooldowns,
      sticky_active |-> Decay(st.sticky_active) ]

AdvanceMessage(st) ==
    [ message_count |-> st.message_count + 1,
      cooldowns |-> Decay(st.cooldowns),
      sticky_active |-> Decay(st.sticky_active) ]

IsOnCooldown(st, uid) == uid \in DOMAIN st.cooldowns /\ st.cooldowns[uid] > 0

\* is_sticky_active false for a uid that is on cooldown
IsStickyActiveOffCooldown(st, uid) ==
    /\ uid \in DOMAIN st.sticky_active /\ st.sticky_active[uid] > 0
    /\ ~IsOnCooldown(st, uid)

IsStickyActive(st, uid) == uid \in DOMAIN st.sticky_active /\ st.sticky_active[uid] > 0

\* dict[uid] = turns
Put(m, uid, turns) ==
    [u \in (DOMAIN m) \cup {uid} |-> IF u = uid THEN turns ELSE m[u]]

\* set_cooldown storing a count of 0 as well
SetCooldownFromZero(st, uid, turns) ==
    IF turns >= 0 THEN [st EXCEPT !.cooldowns = Put(st.cooldowns, uid, turns)] ELSE st

SetCooldown(st, uid, turns) ==
    IF turns > 0 THEN [st EXCEPT !.cooldowns = Put(st.cooldowns, uid, turns)] ELSE st

\* refresh_sticky adding the turns to the counter the uid already has
RefreshStickyStacks(st, uid, turns) ==
    IF turns > 0
    THEN [st EXCEPT !.sticky_active =
            Put(st.sticky_active, uid,
                IF uid \in DOMAIN st.sticky_active
                THEN st.sticky_active[uid] + turns ELSE turns)]
    ELSE st

RefreshSticky(st, uid, turns) ==
    IF turns > 0 THEN [st EXCEPT !.sticky_active = Put(st.sticky_active, uid, turns)] ELSE st

(***************************************************************************)
(* LoreScanner                                                             *)
(***************************************************************************)
\* the values random.randint(1, 100) is drawn from: the two extremes decide
\* every probability in 1..99 both ways
Draws == {1, 100}

\* _passes_probability as a bare comparison with a draw from 0..99
PassesProbabilityFromZero(e, draw) == draw - 1 <= e.probability

\* draw is the value random.randint returns if it is called
PassesProbability(e, draw) ==
    IF e.probability >= 100 THEN TRUE
    ELSE IF e.probability <= 0 THEN FALSE
    ELSE draw <= e.probability

\* _passes_temporal without the cooldown check
PassesTemporalNoCooldown(e, st) ==
    IF e.delay > 0 /\ st.message_count < e.delay THEN FALSE
    ELSE TRUE

\* _passes_temporal comparing the tick counter with <= instead of <
PassesTemporalLateDelay(e, st) ==
    IF e.delay > 0 /\ st.message_count <= e.delay THEN FALSE
    ELSE IF IsOnCooldown(st, e.uid) THEN FALSE
    ELSE TRUE

PassesTemporal(e, st) ==
    IF e.delay > 0 /\ st.message_count < e.delay THEN FALSE
    ELSE IF IsOnCooldown(st, e.uid) THEN FALSE
    ELSE TRUE

\* uids of the store entries at the positions in idx
UidsOf(db, idx) == {db.entries[idx[i]].uid : i \in 1..Len(idx)}

\* the seeding loops with constant rules held to the delay and the cooldown
SeedsWithTemporal(e, sticky, st, draw, taken_uids) ==
    IF sticky
    THEN /\ e.uid \notin taken_uids
         /\ IsStickyActive(st, e.uid)
         /\ PassesProbability(e, draw)
    ELSE PassesTemporal(e, st) /\ PassesProbability(e, draw)

\* the test of the two seeding loops of scan on entry e
Seeds(e, sticky, st, draw, taken_uids) ==
    IF sticky
    THEN /\ e.uid \notin taken_uids
         /\ IsStickyActive(st, e.uid)
         /\ PassesProbability(e, draw)
    ELSE PassesProbability(e, draw)

RECURSIVE SeedLoop(_, _, _, _, _, _, _)
\* the two seeding loops of scan: candidates is get_constant_entries() (sticky
\* = FALSE) or get_active_entries() (sticky = TRUE); acc is triggered
SeedLoop(db, candidates, i, sticky, st, draw, acc) ==
    IF i > Len(candidates) THEN acc
    ELSE SeedLoop(db, candidates, i + 1, sticky, st, draw,
                  IF Seeds(db.entries[candidates[i]], sticky, st,
                           draw[candidates[i]], UidsOf(db, acc))
                  THEN Append(acc, candidates[i]) ELSE acc)

\* the loop body of _scan_text without the test against exclude_uids
TriggersNoExclude(e, text, exclude_uids, st, draw) ==
    /\ PassesTemporal(e, st)
    /\ EvaluateTrigger(e, text)
    /\ PassesProbability(e, draw)

\* the four tests of the loop body of _scan_text on entry e
Triggers(e, text, exclude_uids, st, draw) ==
    /\ e.uid \notin exclude_uids
    /\ PassesTemporal(e, st)
    /\ EvaluateTrigger(e, text)
    /\ PassesProbability(e, draw)

\* the loop body of _scan_text on entry e does not complete: evaluate_trigger
\* is reached and raises
TriggerRaises(e, text, exclude_uids, st) ==
    /\ e.uid \notin exclude_uids
    /\ PassesTemporal(e, st)
    /\ EvaluateTriggerRaises(e, text)

\* the update without the call of refresh_sticky
UpdateTemporalCooldownOnly(e, st) == SetCooldown(st, e.uid, e.cooldown)

\* self.state.set_cooldown(...); self.state.refresh_sticky(...)
UpdateTemporal(e, st) ==
    RefreshSticky(SetCooldown(st, e.uid, e.cooldown), e.uid, e.sticky)

RECURSIVE ScanTextLoop(_, _, _, _, _, _, _, _)
\* the loop of _scan_text from the i-th active entry on; raised: an exception
\* left the loop, st is the ScanState it left behind
ScanTextLoop(db, active, i, text, exclude_uids, st, draw, acc) ==
    IF i > Len(active) THEN [triggered |-> acc, st |-> st, raised |-> FALSE]
    ELSE IF TriggerRaises(db.entries[active[i]], text, exclude_uids, st)
         THEN [triggered |-> acc, st |-> st, raised |-> TRUE]
    ELSE IF Triggers(db.entries[active[i]], text, exclude_uids, st, draw[active[i]])
         THEN ScanTextLoop(db, active, i + 1, text, exclude_uids,
                           UpdateTemporal(db.entries[active[i]], st),
                           draw, Append(acc, active[i]))
         ELSE ScanTextLoop(db, active, i + 1, text, exclude_uids, st, draw, acc)

ScanText(db, text, exclude_uids, st, draw) ==
    ScanTextLoop(db, GetActiveEntries(db), 1, text, exclude_uids, st, draw, <<>>)

RECURSIVE CombinedContentAll(_, _, _)
\* combined_content without the  if entry.exclude_recursion: continue
CombinedContentAll(db, idx, i) ==
    IF i > Len(idx) THEN <<>>
    ELSE <<" ">> \o db.entries[idx[i]].content \o CombinedContentAll(db, idx, i + 1)

RECURSIVE CombinedContent(_, _, _)
\* combined_content of _recursive_scan over entries[i..]
CombinedContent(db, idx, i) ==
    IF i > Len(idx) THEN <<>>
    ELSE (IF db.entries[idx[i]].exclude_recursion THEN <<>>
          ELSE <<" ">> \o db.entries[idx[i]].content)
         \o CombinedContent(db, idx, i + 1)

\* the guard of the recursive call stopping one level early
RecurseDeeperOffByOne(db, found, depth) == found # <<>> /\ depth + 1 < db.scan_depth

\* the guard of the recursive call at the end of _recursive_scan
RecurseDeeper(db, found, depth) == found # <<>> /\ depth < db.scan_depth

\* new_triggers.extend(found); new_triggers.extend(deeper): levels holds the
\* list found by each call that scanned, outermost first
WithDeeper(found, deeper) ==
    [levels |-> <<found>> \o deeper.levels, st |-> deeper.st, raised |-> deeper.raised]

RECURSIVE RecursiveScanUnbounded(_, _, _, _, _, _)
\* _recursive_scan recursing for as long as a pass finds a new rule, whatever
\* the depth
RecursiveScanUnbounded(db, entries, exclude_uids, depth, st, draws) ==
    IF IsBlank(CombinedContent(db, entries, 1))
    THEN [levels |-> <<>>, st |-> st, raised |-> FALSE]
    ELSE IF ScanText(db, CombinedContent(db, entries, 1), exclude_uids, st, draws[1]).triggered = <<>>
    THEN [levels |-> << <<>> >>, st |-> st, raised |-> FALSE]
    ELSE WithDeeper(
            ScanText(db, CombinedContent(db, entries, 1), exclude_uids, st, draws[1]).triggered,
            RecursiveScanUnbounded(
                db,
                ScanText(db, CombinedContent(db, entries, 1), exclude_uids, st, draws[1]).triggered,
                exclude_uids \cup UidsOf(db,
                    ScanText(db, CombinedContent(db, entries, 1), exclude_uids, st, draws[1]).triggered),
                depth + 1,
                ScanText(db, CombinedContent(db, entries, 1), exclude_uids, st, draws[1]).st,
                draws))

RECURSIVE RecursiveScan(_, _, _, _, _, _)
RECURSIVE AfterFound(_, _, _, _, _)

\* _recursive_scan from  found = self._scan_text(...)  on; r is what
\* _scan_text returned
AfterFound(db, r, exclude_uids, depth, draws) ==
    IF r.raised THEN [levels |-> <<>>, st |-> r.st, raised |-> TRUE]
    ELSE IF RecurseDeeper(db, r.triggered, depth)
    THEN WithDeeper(r.triggered,
                    RecursiveScan(db, r.triggered,
                                  exclude_uids \cup UidsOf(db, r.triggered),
                                  depth + 1, r.st, draws))
    ELSE [levels |-> <<r.triggered>>, st |-> r.st, raised |-> FALSE]

\* the recursive pass advancing the ScanState before it scans
ScanCombinedAdvancing(db, combined_content, exclude_uids, depth, st, draws) ==
    IF IsBlank(combined_content) THEN [levels |-> <<>>, st |-> st, raised |-> FALSE]
    ELSE AfterFound(db, ScanText(db, combined_content, exclude_uids, AdvanceMessage(st),
                                 draws[depth + 1]),
                    exclude_uids, depth, draws)

\* _recursive_scan from  if not combined_content.strip()  on
ScanCombined(db, combined_content, exclude_uids, depth, st, draws) ==
    IF IsBlank(combined_content) THEN [levels |-> <<>>, st |-> st, raised |-> FALSE]
    ELSE AfterFound(db, ScanText(db, combined_content, exclude_uids, st, draws[depth + 1]),
                    exclude_uids, depth, draws)

\* _recursive_scan
RecursiveScan(db, entries, exclude_uids, depth, st, draws) ==
    IF depth > db.scan_depth THEN [levels |-> <<>>, st |-> st, raised |-> FALSE]
    ELSE ScanCombined(db, CombinedContent(db, entries, 1), exclude_uids, depth, st, draws)

RECURSIVE Flatten(_)
Flatten(ss) == IF ss = <<>> THEN <<>> ELSE Head(ss) \o Flatten(Tail(ss))

\* the number of elements of sorted whose key is < that of x: an unstable
\* sort that places x before the elements of equal key
CountBefore(db, sorted, x) ==
    Cardinality({i \in 1..Len(sorted) :
                    db.entries[sorted[i]].order < db.entries[x].order})

\* the number of elements of sorted whose key is <= that of x
CountNotAfter(db, sorted, x) ==
    Cardinality({i \in 1..Len(sorted) :
                    db.entries[sorted[i]].order <= db.entries[x].order})

\* a stable sort places x behind every element whose key is <= its own
InsertAt(sorted, n, x) ==
    SubSeq(sorted, 1, n) \o <<x>> \o SubSeq(sorted, n + 1, Len(sorted))

InsertByOrder(db, sorted, x) == InsertAt(sorted, CountNotAfter(db, sorted, x), x)

RECURSIVE SortByOrder(_, _, _)
\* triggered.sort(key=lambda e: e.order) over the first n elements: stable
SortByOrder(db, triggered, n) ==
    IF n = 0 THEN <<>>
    ELSE InsertByOrder(db, SortByOrder(db, triggered, n - 1), triggered[n])

\* scan from  triggered.sort  on: what the call returns, with the parts the
\* result was put together from; a call that raised returns nothing
SortAndReturn(db, const, seeded, new, levels, triggered, st, raised) ==
    [ raised |-> raised,
      result |-> IF raised THEN <<>> ELSE SortByOrder(db, triggered, Len(triggered)),
      const |-> const,
      carried |-> SubSeq(seeded, Len(const) + 1, Len(seeded)),
      new |-> new,
      levels |-> levels,
      st |-> st ]

\* scan: triggered.extend(recursive_triggers)
ExtendRecursive(db, const, seeded, new, rec) ==
    SortAndReturn(db, const, seeded, new, rec.levels,
                  seeded \o new \o Flatten(rec.levels), rec.st, rec.raised)

\* the recursive scan fed with the constant and carried-over rules as well
AfterScanTextFeedsSeeded(db, const, seeded, r, draws) ==
    ExtendRecursive(db, const, seeded, r.triggered,
        IF r.raised THEN [levels |-> <<>>, st |-> r.st, raised |-> TRUE]
        ELSE IF db.scan_depth > 0
        THEN RecursiveScan(db, seeded \o r.triggered,
                           UidsOf(db, seeded) \cup UidsOf(db, r.triggered),
                           1, r.st, draws)
        ELSE [levels |-> <<>>, st |-> r.st, raised |-> FALSE])

\* scan from  triggered.extend(new_triggers)  on; r is what _scan_text returned
AfterScanText(db, const, seeded, r, draws) ==
    ExtendRecursive(db, const, seeded, r.triggered,
        IF r.raised THEN [levels |-> <<>>, st |-> r.st, raised |-> TRUE]
        ELSE IF db.scan_depth > 0
        THEN RecursiveScan(db, r.triggered,
                           UidsOf(db, seeded) \cup UidsOf(db, r.triggered),
                           1, r.st, draws)
        ELSE [levels |-> <<>>, st |-> r.st, raised |-> FALSE])

\* the scan of the text excluding the constant rules only
AfterSeedingExcludesConstants(db, text, st, draws, const, seeded) ==
    AfterScanText(db, const, seeded,
                  ScanText(db, text, UidsOf(db, const), st, draws[1]), draws)

\* scan from  new_triggers = self._scan_text(text, triggered_uids)  on
AfterSeeding(db, text, st, draws, const, seeded) ==
    AfterScanText(db, const, seeded,
                  ScanText(db, text, UidsOf(db, seeded), st, draws[1]), draws)

\* scan from the loop over get_active_entries() (sticky carry-over) on
AfterConstants(db, text, st, draws, const) ==
    AfterSeeding(db, text, st, draws, const,
                 SeedLoop(db, GetActiveEntries(db), 1, TRUE, st, draws[0], const))

\* scan after  if advance_message: self.state.advance_message()
ScanFrom(db, text, st, draws) ==
    AfterConstants(db, text, st, draws,
                   SeedLoop(db, GetConstantEntries(db), 1, FALSE, st, draws[0], <<>>))

\* scan calling advance_message whatever the flag says
ScanCallAlwaysAdvances(db, text, advance_message, st0, draws) ==
    ScanFrom(db, text, AdvanceMessage(st0), draws)

\* scan(text, advance_message); draws[0] serves the two seeding loops,
\* draws[1] the scan of the text and draws[1 + d] the recursive scan at depth d
ScanCall(db, text, advance_message, st0, draws) ==
    ScanFrom(db, text, IF advance_message THEN AdvanceMessage(st0) ELSE st0, draws)

(***************************************************************************)
(* Stores and texts explored                                               *)
(***************************************************************************)
TextK == <<"x", "K">>
TextB == <<"B", " ", "x">>
TextNone == <<"x">>
Texts == {TextK, TextB, TextNone}

Groups == {"", "g"}

\* one rule on the keyword "k" with every temporal configuration
TemporalStores ==
    { [ entries |-> << [Rule("a", << <<"k">> >>, <<"x">>)
                          EXCEPT !.cooldown = c, !.sticky = s, !.delay = d] >>,
        scan_depth |-> 2 ] :
      c \in 0..MaxCooldown, s \in 0..MaxSticky, d \in 0..MaxDelay }

\* four rules a, b, c, d on the keywords k, b, c, d.  In a chain the payload
\* of a names b, that of b names c and that of c names d; with cyc the
\* payloads cross-reference: a names b and c, b names a and c, c names b and
\* d, d names c.  a is gated: it triggers on "k" unless the text holds "b",
\* so b's payload triggers it also in a scan whose text holds "b".  d may
\* instead be a constant rule without keys.
DeepRules(cyc, exclA, stickyB, sameOrder, constD) ==
    << [Rule("a", << <<"k">> >>,
             IF cyc THEN <<"b", " ", "c">> ELSE <<"t", "o", " ", "b">>)
           EXCEPT !.exclude_recursion = exclA,
                  !.keysecondary = << <<"b">> >>, !.logic = "not_any",
                  !.order = IF sameOrder THEN 100 ELSE 300],
       [Rule("b", << <<"b">> >>, IF cyc THEN <<"K", " ", "c">> ELSE <<"c">>)
           EXCEPT !.sticky = stickyB],
       [Rule("c", << <<"c">> >>, IF cyc THEN <<"b", " ", "d">> ELSE <<"d">>)
           EXCEPT !.order = IF sameOrder THEN 100 ELSE 200],
       IF constD
       THEN [Rule("d", <<>>, <<"x">>) EXCEPT !.constant = TRUE]
       ELSE Rule("d", << <<"d">> >>, IF cyc THEN <<"c">> ELSE <<"x">>) >>

Reverse(es) == [i \in 1..Len(es) |-> es[Len(es) + 1 - i]]

\* the combinations of sticky carry-over, equal orders, a constant rule and
\* reversed store order explored
DeepFlavours ==
    { [stickyB |-> 0, sameOrder |-> FALSE, constD |-> FALSE, rev |-> FALSE],
      [stickyB |-> 0, sameOrder |-> TRUE, constD |-> FALSE, rev |-> TRUE],
      [stickyB |-> MaxSticky, sameOrder |-> TRUE, constD |-> TRUE, rev |-> TRUE],
      [stickyB |-> MaxSticky, sameOrder |-> FALSE, constD |-> TRUE, rev |-> FALSE] }

DeepStores ==
    { [ entries |-> IF f.rev
                    THEN Reverse(DeepRules(cyc, exclA, f.stickyB, f.sameOrder, f.constD))
                    ELSE DeepRules(cyc, exclA, f.stickyB, f.sameOrder, f.constD),
        scan_depth |-> depth ] :
      cyc \in BOOLEAN, exclA \in BOOLEAN, f \in DeepFlavours,
      depth \in 0..MaxScanDepth }

\* rule a (keyword k, payload naming b) constant or not, disabled or not and
\* of probability 0, 50 or 100; rule b reached through a's payload; a constant
\* rule c without keys, disabled or not.  All three are in group "g".
MixedStores ==
    { [ entries |->
          << [Rule("a", << <<"k">> >>, <<"b">>)
                 EXCEPT !.group = "g", !.sticky = MaxSticky, !.constant = constA,
                        !.disabled = offA, !.probability = p],
             [Rule("b", << <<"b">> >>, <<"x">>)
                 EXCEPT !.group = "g", !.sticky = 1, !.order = 50],
             [Rule("c", <<>>, <<"x">>)
                 EXCEPT !.group = "g", !.constant = TRUE, !.disabled = offC] >>,
        scan_depth |-> 1 ] :
      constA \in BOOLEAN, offA \in BOOLEAN, offC \in BOOLEAN, p \in {0, 50, 100} }

\* the temporal settings of rule a explored together with the flags
FilterFlavours ==
    { [cooldown |-> 0, sticky |-> 0, delay |-> 0],
      [cooldown |-> MaxCooldown, sticky |-> 0, delay |-> 0],
      [cooldown |-> 0, sticky |-> MaxSticky, delay |-> 0],
      [cooldown |-> MaxCooldown, sticky |-> 0, delay |-> MaxDelay] }

\* rule a (keyword k, payload naming b) constant or not, of probability 0, 50
\* or 100, with each temporal setting; rule b reached through a's payload;
\* rule e without keys, its payload naming b too, constant or not, with a
\* delay and a cooldown; rule z
\* on the keyword k with probability 0.
FilterStores ==
    { [ entries |->
          << [Rule("a", << <<"k">> >>, <<"b">>)
                 EXCEPT !.constant = constA, !.probability = p,
                        !.cooldown = f.cooldown, !.sticky = f.sticky,
                        !.delay = f.delay],
             Rule("b", << <<"b">> >>, <<"x">>),
             [Rule("e", <<>>, <<"b">>)
                 EXCEPT !.constant = constE, !.delay = MaxDelay,
                        !.cooldown = MaxCooldown],
             [Rule("z", << <<"k">> >>, <<"x">>)
                 EXCEPT !.probability = 0] >>,
        scan_depth |-> 1 ] :
      constA \in BOOLEAN, constE \in BOOLEAN, p \in {0, 50, 100},
      f \in FilterFlavours }

\* a ScanState kept from an earlier session, one tick before the delay of
\* rule e: rules a, e and z still have a sticky counter and rule e a cooldown
\* counter
PersistedScanState ==
    [ message_count |-> MaxDelay - 1,
      cooldowns |-> [u \in {"e"} |-> MaxCooldown],
      sticky_active |-> [u \in {"a", "e", "z"} |-> MaxSticky] ]

\* keys: the plain keywords k, s, t; a pattern with a repetition count; a
\* pattern re.compile rejects with re.error; patterns whose repetition count
\* re.compile rejects with OverflowError
KeyK == <<"k">>
KeyS == <<"s">>
KeyT == <<"t">>
KeyTwoK == <<"/", "K", "{", "2", "}", "/", "i">>
KeyUnclosed == <<"/", "(", "/">>
KeyHugeK == <<"/", "k", "{", "9", "9", "9", "9", "9", "9", "9", "9", "9", "9", "9", "}", "/">>
KeyHugeS == <<"/", "s", "{", "9", "9", "9", "9", "9", "9", "9", "9", "9", "9", "9", "}", "/">>

PrimaryKeys ==
    { <<>>, <<KeyK>>, <<KeyTwoK>>, <<KeyUnclosed>>, <<KeyUnclosed, KeyK>>, <<KeyHugeK>> }

SecondaryKeys ==
    { <<>>, <<KeyS>>, <<KeyS, KeyT>>, <<KeyUnclosed, KeyS>>, <<KeyS, KeyHugeS>> }

\* texts holding k and s, k, s and t, k twice, s and t without k, and the
\* characters of the unclosed pattern themselves
TextKS == <<"k", "s">>
TextKST == <<"K", "s", "t">>
TextKK == <<"k", "k">>
TextST == <<"s", "t">>
TextUnclosed == <<"/", "(", "/", "k">>
GateTexts == {TextKS, TextKST, TextKK, TextST, TextUnclosed}

\* a store of one rule on these keys
TriggerStore(pk, sk, g, c) ==
    [ entries |-> << [Rule("a", pk, <<"x">>)
                         EXCEPT !.keysecondary = sk, !.logic = g, !.constant = c] >>,
      scan_depth |-> 2 ]

\* one rule with every combination of primary keys, secondary keys and gate;
\* the rule without keys and the rule on the keyword k also as constant rules
TriggerStores ==
    { TriggerStore(pk, sk, g, FALSE) :
        pk \in PrimaryKeys, sk \in SecondaryKeys, g \in LogicGate }
    \cup
    { TriggerStore(pk, sk, g, TRUE) :
        pk \in {<<>>, <<KeyK>>}, sk \in SecondaryKeys, g \in LogicGate }

\* the keyword k and keys with slashes: a pattern between slashes, the same
\* with a flag, a path-like key whose tail is no flag string, two slashes with
\* nothing between them, a key with a leading slash only and a lone slash
SlashKeys ==
    { KeyK, <<"/", "k", "/">>, <<"/", "K", "/", "i">>, <<"/", "k", "/", "t">>,
      <<"/", "/">>, <<"/", "k">>, <<"/">> }

\* texts holding the characters of the path-like key, two slashes in a row,
\* and the keyword alone
SlashTexts == { <<"x", "/", "K", "/", "t">>, <<"/", "/", "k">>, TextK }

\* a store of one rule on one of these keys
SlashStores == { TriggerStore(<<key>>, <<>>, "and_any", FALSE) : key \in SlashKeys }

\* the stores a session starts from: WorldInfoDatabase() and a loaded
\* lorebook of three rules a, b, c
InitialStores ==
    { [entries |-> <<>>, scan_depth |-> 2],
      [entries |-> << Rule("a", <<KeyK>>, <<"x">>), Rule("b", <<KeyS>>, <<"x">>),
                      Rule("c", <<KeyT>>, <<"x">>) >>,
       scan_depth |-> 2] }

\* the entries handed to add_entry: the caller may set uid, and two entries
\* may carry the same one
NewEntries ==
    { Rule(uid, <<KeyK>>, content) : uid \in {"a", "b"}, content \in {<<"x">>, <<"y">>} }

\* the uids looked up and deleted; no entry has the uid n
LookupUids == {"a", "b", "n"}

(***************************************************************************)
(* State                                                                   *)
(***************************************************************************)
VARIABLES
    database,   \* the WorldInfoDatabase the scanner holds: [entries, scan_depth]
    state,      \* the ScanState the scanner holds
    log         \* one record per scan call made so far, oldest first

vars == <<database, state, log>>

\* positions of the entries whose probability makes _passes_probability draw
DrawingIdx(db) ==
    {i \in 1..Len(db.entries) :
        db.entries[i].probability > 0 /\ db.entries[i].probability < 100}

\* the draws one scan call can consume: per stage, per entry; an entry that
\* never draws gets the fixed value 1, which PassesProbability ignores
DrawChoices(db) ==
    [0..(db.scan_depth + 1) ->
        {f \in [1..Len(db.entries) -> Draws] :
            \A i \in 1..Len(db.entries) : i \notin DrawingIdx(db) => f[i] = 1}]

\* scanner.scan(text, advance_message); the log keeps what the call saw and
\* what it returned, or that it raised
ScanEffect(text, advance_message) ==
    \E draws \in DrawChoices(database) :
         LET r == ScanCall(database, text, advance_message, state, draws)
         IN  /\ state' = r.st
             /\ log' = Append(log, [ op |-> "scan",
                                     text |-> text, advance |-> advance_message,
                                     entries |-> database.entries,
                                     scan_depth |-> database.scan_depth,
                                     before |-> state,
                                     at |-> IF advance_message THEN AdvanceMessage(state)
                                            ELSE state,
                                     raised |-> r.raised,
                                     result |-> r.result, const |-> r.const,
                                     carried |-> r.carried, new |-> r.new,
                                     levels |-> r.levels ])

\* the entries of the store sorted by order
EntriesByOrder(db) ==
    [i \in 1..Len(db.entries) |->
        db.entries[SortByOrder(db, [j \in 1..Len(db.entries) |-> j], Len(db.entries))[i]]]

\* scan sorting the store's own entry list in place
ScanSortsStore(text, advance_message) ==
    /\ ScanEffect(text, advance_message)
    /\ database' = [database EXCEPT !.entries = EntriesByOrder(database)]

\* scan assigns to no attribute of the store and of its entries, and sorts a
\* list of its own
Scan(text, advance_message) ==
    /\ ScanEffect(text, advance_message)
    /\ UNCHANGED database

\* database.entries[i].evaluate_trigger(text); the log keeps the arguments and
\* how the call ended
EvaluateTriggerCall(i, text) ==
    /\ log' = Append(log, [ op |-> "evaluate_trigger", text |-> text,
                            entries |-> database.entries, idx |-> i,
                            raised |-> EvaluateTriggerRaises(database.entries[i], text),
                            value |-> /\ ~EvaluateTriggerRaises(database.entries[i], text)
                                      /\ EvaluateTrigger(database.entries[i], text) ])
    /\ UNCHANGED <<database, state>>

\* database.entries[i].matches_text(text, database.entries[i].key)
MatchesTextCall(i, text) ==
    /\ log' = Append(log, [ op |-> "matches_text", text |-> text,
                            entries |-> database.entries, idx |-> i,
                            raised |-> MatchesTextRaises(text, database.entries[i].key),
                            value |-> /\ ~MatchesTextRaises(text, database.entries[i].key)
                                      /\ MatchesText(text, database.entries[i].key) ])
    /\ UNCHANGED <<database, state>>

\* a store operation with this outcome: the log keeps the operation, its
\* argument, the entries before and after and the value returned
StoreOp(op, arg, outcome) ==
    /\ database' = [database EXCEPT !.entries = outcome.entries]
    /\ log' = Append(log, [ op |-> op, arg |-> arg, entries |-> database.entries,
                            after |-> outcome.entries, value |-> outcome.value ])
    /\ UNCHANGED state

\* database.add_entry(entry)
AddEntry(entry) == StoreOp("add_entry", entry.uid, AddEntryOutcome(database.entries, entry))

\* database.get_entry(uid)
GetEntry(uid) == StoreOp("get_entry", uid, GetEntryOutcome(database.entries, uid))

\* database.delete_entry(uid)
DeleteEntry(uid) == StoreOp("delete_entry", uid, DeleteEntryOutcome(database.entries, uid))

\* a call of a ScanState method with this outcome: the log keeps the method,
\* its arguments and the ScanState it found
StateOp(op, uid, turns, outcome) ==
    /\ state' = outcome
    /\ log' = Append(log, [ op |-> op, uid |-> uid, turns |-> turns, before |-> state ])
    /\ UNCHANGED database

\* scanner.state.advance_message()
AdvanceMessageCall == StateOp("advance_message", "", 0, AdvanceMessage(state))

\* scanner.state.set_cooldown(uid, turns)
SetCooldownCall(uid, turns) ==
    StateOp("set_cooldown", uid, turns, SetCooldown(state, uid, turns))

\* scanner.state.refresh_sticky(uid, turns)
RefreshStickyCall(uid, turns) ==
    StateOp("refresh_sticky", uid, turns, RefreshSticky(state, uid, turns))

\* database.set_group_disabled(group, disabled)
SetGroupDisabled(group, disabled) ==
    /\ database' = [database EXCEPT
                      !.entries = SetGroupDisabledEntries(database.entries, group, disabled)]
    /\ UNCHANGED <<state, log>>

(***************************************************************************)
(* Specification of the temporal parameters: one rule, a fresh ScanState,  *)
(* any sequence of up to MaxScans scans with or without the keyword.       *)
(***************************************************************************)
InitTemporal ==
    /\ database \in TemporalStores
    /\ state = FreshScanState
    /\ log = <<>>

NextTemporal ==
    /\ Len(log) < MaxScans
    /\ \E text \in {TextK, TextNone}, advance_message \in BOOLEAN :
          Scan(text, advance_message)

SpecTemporal == InitTemporal /\ [][NextTemporal]_vars

(***************************************************************************)
(* Specification of the recursive re-scan: four cross-referencing rules,   *)
(* every scan_depth, up to MaxDeepScans scans of any of the texts.         *)
(***************************************************************************)
InitDeep ==
    /\ database \in DeepStores
    /\ state = FreshScanState
    /\ log = <<>>

NextDeep ==
    /\ Len(log) < MaxDeepScans
    /\ \E text \in Texts, advance_message \in BOOLEAN : Scan(text, advance_message)

SpecDeep == InitDeep /\ [][NextDeep]_vars

(***************************************************************************)
(* Specification of the flags: constant, disabled and probabilistic rules, *)
(* groups switched off and on between the scans.                           *)
(***************************************************************************)
Init ==
    /\ database \in MixedStores
    /\ state = FreshScanState
    /\ log = <<>>

ScanStep ==
    /\ Len(log) < MaxDeepScans
    /\ \E text \in {TextK, TextNone}, advance_message \in BOOLEAN :
          Scan(text, advance_message)

SetGroupDisabledStep ==
    \E group \in Groups, disabled \in BOOLEAN : SetGroupDisabled(group, disabled)

Next == ScanStep \/ SetGroupDisabledStep

Spec == Init /\ [][Next]_vars

(***************************************************************************)
(* Specification of the filters: constant, keyless and probabilistic       *)
(* rules, scanned with a fresh ScanState or with one kept from before.     *)
(***************************************************************************)
InitFilter ==
    /\ database \in FilterStores
    /\ state \in {FreshScanState, PersistedScanState}
    /\ log = <<>>

NextFilter ==
    /\ Len(log) < MaxDeepScans
    /\ \E text \in {TextK, TextNone}, advance_message \in BOOLEAN :
          Scan(text, advance_message)

SpecFilter == InitFilter /\ [][NextFilter]_vars

(***************************************************************************)
(* Specification of the keys: one rule, its keys matched against texts by  *)
(* matches_text, evaluate_trigger and scan.                                *)
(***************************************************************************)
InitTrigger ==
    /\ database \in TriggerStores
    /\ state = FreshScanState
    /\ log = <<>>

EvaluateStep ==
    /\ Len(log) < MaxCalls
    /\ \E text \in GateTexts : EvaluateTriggerCall(1, text)

MatchStep ==
    /\ Len(log) < MaxCalls
    /\ \E text \in {TextKK, TextUnclosed} : MatchesTextCall(1, text)

ScanKeysStep ==
    /\ Len(log) < MaxCalls
    /\ \E text \in {TextKS, TextUnclosed}, advance_message \in BOOLEAN :
          Scan(text, advance_message)

NextTrigger == EvaluateStep \/ MatchStep \/ ScanKeysStep

SpecTrigger == InitTrigger /\ [][NextTrigger]_vars

(***************************************************************************)
(* Specification of the keys with slashes: one rule on one key, matched    *)
(* against texts by matches_text and evaluate_trigger.                     *)
(***************************************************************************)
InitSlash ==
    /\ database \in SlashStores
    /\ state = FreshScanState
    /\ log = <<>>

NextSlash ==
    /\ Len(log) < MaxCalls
    /\ \/ \E text \in SlashTexts : EvaluateTriggerCall(1, text)
       \/ \E text \in SlashTexts : MatchesTextCall(1, text)

SpecSlash == InitSlash /\ [][NextSlash]_vars

(***************************************************************************)
(* Two scan calls on one scanner, interleaved.  log holds the frame of     *)
(* each call: its arguments, its position pc and its local variables.      *)
(* advance_message is taken statement by statement; the rest of scan is    *)
(* one step, so the interleavings explored are some of those that can      *)
(* happen, not all.  The stores have one rule, so a dict of the ScanState  *)
(* holds at most one key.                                                  *)
(***************************************************************************)
\* the two calls
Calls == {1, 2}

\* one rule on the keyword k, without temporal settings, with a cooldown or
\* with a sticky count
ThreadStores ==
    { [ entries |-> << [Rule("a", <<KeyK>>, <<"x">>)
                           EXCEPT !.cooldown = f.cooldown, !.sticky = f.sticky] >>,
        scan_depth |-> 2 ] :
      f \in {g \in FilterFlavours : g.delay = 0} }

\* the ScanStates the two calls may find: counters left by earlier scans
ThreadScanStates ==
    { [ message_count |-> 1, cooldowns |-> cd, sticky_active |-> sa ] :
      cd \in {EmptyDict} \cup {[u \in {"a"} |-> n] : n \in 1..2},
      sa \in {EmptyDict, [u \in {"a"} |-> 1]} }

\* the frame of a call that has not started
NewFrame(text, advance_message, st0) ==
    [ op |-> "scan", text |-> text, advance |-> advance_message, st0 |-> st0,
      pc |-> "start", dict |-> "cooldowns",
      it |-> [size |-> 0, yielded |-> 0, todo |-> <<>>, appended |-> <<>>],
      uid |-> "", turns |-> 0, expired |-> <<>>,
      error |-> "", result |-> <<>> ]

\* the keys of a dict in iteration order
DictKeys(d) == IF DOMAIN d = {} THEN <<>> ELSE <<CHOOSE u \in DOMAIN d : TRUE>>

\* iter(d.items()): the size of the dict when the iterator is made, the
\* number of items yielded, the keys not yet visited, and the keys inserted
\* behind them since
NewIter(d) ==
    [size |-> Cardinality(DOMAIN d), yielded |-> 0, todo |-> DictKeys(d), appended |-> <<>>]

\* next() on the iterator: "RuntimeError" (dictionary changed size during
\* iteration, or an entry turns up after all the items were yielded:
\* dictionary keys changed during iteration), "StopIteration" or "item"
IterNext(it, d) ==
    IF Cardinality(DOMAIN d) # it.size THEN "RuntimeError"
    ELSE IF it.todo \o it.appended = <<>> THEN "StopIteration"
    ELSE IF it.yielded >= it.size THEN "RuntimeError"
    ELSE "item"

\* the iterator after it yielded the next key
Yielded(it) ==
    [ size |-> it.size, yielded |-> it.yielded + 1,
      todo |-> IF it.todo # <<>> THEN Tail(it.todo) ELSE <<>>,
      appended |-> IF it.todo # <<>> THEN it.appended ELSE Tail(it.appended) ]

\* a frame whose for loop over the dict named dn is running
Iterating(f, dn) == f.pc \in {"set", "test", "next"} /\ f.dict = dn

\* the frames after the keys in deleted were removed from the dict named dn
\* and the keys in inserted were added to it: the running iterators over it
\* skip the former and come upon the latter
Restructured(frames, dn, deleted, inserted) ==
    [k \in 1..Len(frames) |->
        IF Iterating(frames[k], dn)
        THEN [frames[k] EXCEPT
                !.it.todo = SelectSeq(@, LAMBDA u : u \notin deleted),
                !.it.appended = SelectSeq(@, LAMBDA u : u \notin deleted) \o inserted]
        ELSE frames[k]]

\* d without the key uid
Without(d, uid) == [u \in (DOMAIN d) \ {uid} |-> d[u]]

\* if advance_message: self.state.advance_message()
Start(t) ==
    /\ log[t].pc = "start"
    /\ log' = [log EXCEPT ![t].pc = IF log[t].advance THEN "inc" ELSE "body"]
    /\ UNCHANGED <<database, state>>

\* self.message_count += 1
Increment(t) ==
    /\ log[t].pc = "inc"
    /\ state' = [state EXCEPT !.message_count = @ + 1]
    /\ log' = [log EXCEPT ![t].pc = "for", ![t].dict = "cooldowns"]
    /\ UNCHANGED database

\* expired = []; for uid, turns in self.<dict>.items(): the first item
ForHeader(t) ==
    /\ log[t].pc = "for"
    /\ log' = [log EXCEPT ![t] =
                 IF DOMAIN state[log[t].dict] = {}
                 THEN [@ EXCEPT !.pc = "del", !.expired = <<>>]
                 ELSE [@ EXCEPT !.pc = "set", !.expired = <<>>,
                                !.it = Yielded(NewIter(state[log[t].dict])),
                                !.uid = DictKeys(state[log[t].dict])[1],
                                !.turns = state[log[t].dict][DictKeys(state[log[t].dict])[1]]]]
    /\ UNCHANGED <<database, state>>

\* self.<dict>[uid] = turns - 1
SetCounter(t) ==
    /\ log[t].pc = "set"
    /\ state' = [state EXCEPT ![log[t].dict] = Put(@, log[t].uid, log[t].turns - 1)]
    /\ log' = [Restructured(log, log[t].dict, {},
                            IF log[t].uid \in DOMAIN state[log[t].dict]
                            THEN <<>> ELSE <<log[t].uid>>)
                 EXCEPT ![t].pc = "test"]
    /\ UNCHANGED database

\* if self.<dict>[uid] <= 0: expired.append(uid)
TestCounter(t) ==
    /\ log[t].pc = "test"
    /\ log' = [log EXCEPT ![t] =
                 IF log[t].uid \notin DOMAIN state[log[t].dict]
                 THEN [@ EXCEPT !.pc = "error", !.error = "KeyError"]
                 ELSE IF state[log[t].dict][log[t].uid] <= 0
                 THEN [@ EXCEPT !.pc = "next", !.expired = Append(@, log[t].uid)]
                 ELSE [@ EXCEPT !.pc = "next"]]
    /\ UNCHANGED <<database, state>>

\* for uid, turns in self.<dict>.items(): the next item
NextItem(t) ==
    /\ log[t].pc = "next"
    /\ log' = [log EXCEPT ![t] =
                 IF IterNext(log[t].it, state[log[t].dict]) = "RuntimeError"
                 THEN [@ EXCEPT !.pc = "error", !.error = "RuntimeError"]
                 ELSE IF IterNext(log[t].it, state[log[t].dict]) = "StopIteration"
                 THEN [@ EXCEPT !.pc = "del"]
                 ELSE [@ EXCEPT !.pc = "set", !.it = Yielded(log[t].it),
                                !.uid = Head(log[t].it.todo \o log[t].it.appended),
                                !.turns = state[log[t].dict]
                                              [Head(log[t].it.todo \o log[t].it.appended)]]]
    /\ UNCHANGED <<database, state>>

\* for uid in expired: del self.<dict>[uid], one deletion at a time; after the
\* last one the loop over the other dict, then the rest of scan
DeleteExpired(t) ==
    /\ log[t].pc = "del"
    /\ IF log[t].expired = <<>>
       THEN /\ log' = [log EXCEPT ![t] =
                         IF log[t].dict = "cooldowns"
                         THEN [@ EXCEPT !.pc = "for", !.dict = "sticky_active"]
                         ELSE [@ EXCEPT !.pc = "body"]]
            /\ UNCHANGED state
       ELSE IF Head(log[t].expired) \notin DOMAIN state[log[t].dict]
       THEN /\ log' = [log EXCEPT ![t].pc = "error", ![t].error = "KeyError"]
            /\ UNCHANGED state
       ELSE /\ state' = [state EXCEPT ![log[t].dict] = Without(@, Head(log[t].expired))]
            /\ log' = [Restructured(log, log[t].dict, {Head(log[t].expired)}, <<>>)
                         EXCEPT ![t].expired = Tail(@)]
    /\ UNCHANGED database

\* the keys the ScanState after has in the dict named dn and before has not
Inserted(before, after, dn) ==
    DictKeys([u \in (DOMAIN after[dn]) \ (DOMAIN before[dn]) |-> after[dn][u]])

\* scan from  triggered = []  to its return
Body(t) ==
    /\ log[t].pc = "body"
    /\ \E draws \in DrawChoices(database) :
         LET r == ScanFrom(database, log[t].text, state, draws)
         IN  /\ state' = r.st
             /\ log' = [Restructured(
                            Restructured(log, "cooldowns", {},
                                         Inserted(state, r.st, "cooldowns")),
                            "sticky_active", {}, Inserted(state, r.st, "sticky_active"))
                          EXCEPT ![t].pc = IF r.raised THEN "error" ELSE "done",
                                 ![t].result = r.result]
    /\ UNCHANGED database

InitThreads ==
    /\ database \in ThreadStores
    /\ state \in ThreadScanStates
    /\ \E text \in {TextK, TextNone}, advance_message \in BOOLEAN :
          log = << NewFrame(text, TRUE, state), NewFrame(text, advance_message, state) >>

NextThreads ==
    \E t \in Calls :
        \/ Start(t) \/ Increment(t) \/ ForHeader(t) \/ SetCounter(t)
        \/ TestCounter(t) \/ NextItem(t) \/ DeleteExpired(t) \/ Body(t)

SpecThreads == InitThreads /\ [][NextThreads]_vars

(***************************************************************************)
(* Specification of the store: entries added, looked up and deleted.       *)
(***************************************************************************)
InitStore ==
    /\ database \in InitialStores
    /\ state = FreshScanState
    /\ log = <<>>

AddEntryStep ==
    /\ Len(log) < MaxOps
    /\ Len(database.entries) < MaxEntries
    /\ \E entry \in NewEntries : AddEntry(entry)

GetEntryStep ==
    /\ Len(log) < MaxOps
    /\ \E uid \in LookupUids : GetEntry(uid)

DeleteEntryStep ==
    /\ Len(log) < MaxOps
    /\ \E uid \in LookupUids : DeleteEntry(uid)

NextStore == AddEntryStep \/ GetEntryStep \/ DeleteEntryStep

SpecStore == InitStore /\ [][NextStore]_vars

(***************************************************************************)
(* Specification of the ScanState: its methods called directly, between    *)
(* scans of a store of two rules.                                          *)
(***************************************************************************)
\* rule a on the keyword k, plain, with a cooldown or with a sticky count, its
\* payload naming rule b, which has both and whose payload names rule c,
\* which has a delay
StateStores ==
    { [ entries |->
          << [Rule("a", <<KeyK>>, <<"b">>)
                 EXCEPT !.cooldown = f.cooldown, !.sticky = f.sticky],
             [Rule("b", << <<"b">> >>, <<"c">>)
                 EXCEPT !.cooldown = MaxSticky, !.sticky = MaxCooldown],
             [Rule("c", << <<"c">> >>, <<"x">>) EXCEPT !.delay = MaxDelay] >>,
        scan_depth |-> 2 ] :
      f \in {g \in FilterFlavours : g.delay = 0} }

\* the uids handed to set_cooldown and refresh_sticky; no rule has the uid n
StateUids == {"b", "n"}

\* the counts handed to them: negative, zero, one and the largest
Turns(max) == {0 - 1, 0, 1, max}

InitState ==
    /\ database \in StateStores
    /\ state = FreshScanState
    /\ log = <<>>

NextState ==
    /\ Len(log) < MaxOps
    /\ \/ AdvanceMessageCall
       \/ \E uid \in StateUids, turns \in Turns(MaxCooldown) : SetCooldownCall(uid, turns)
       \/ \E uid \in StateUids, turns \in Turns(MaxSticky) : RefreshStickyCall(uid, turns)
       \/ \E advance_message \in BOOLEAN : Scan(TextK, advance_message)

SpecState == InitState /\ [][NextState]_vars

(***************************************************************************)
(* Reading the log                                                         *)
(***************************************************************************)
\* the entries scan k returned, in the order returned
ResultEntries(k) ==
    [p \in 1..Len(log[k].result) |-> log[k].entries[log[k].result[p]]]

\* the rule with this uid is in the result of scan k
InResult(k, uid) == \E p \in 1..Len(log[k].result) : ResultEntries(k)[p].uid = uid

\* the rule with this uid was newly triggered by the text of scan k
FiredOnText(k, uid) ==
    \E p \in 1..Len(log[k].new) : log[k].entries[log[k].new[p]].uid = uid

\* scans a..b all advanced the ScanState
Advancing(a, b) == \A k \in a..b : log[k].advance

\* the text of each of the scans a..b triggers e / of none of them does
KeywordIn(e, a, b) == \A k \in a..b : EvaluateTrigger(e, log[k].text)
KeywordAbsent(e, a, b) == \A k \in a..b : ~EvaluateTrigger(e, log[k].text)

\* an enabled, non-constant rule that always passes the probability filter
Plain(e) == ~e.constant /\ ~e.disabled /\ e.probability = 100

Min(a, b) == IF a <= b THEN a ELSE b

CooldownRun(e, k, b) ==
    /\ Plain(e) /\ e.cooldown >= 1 /\ e.sticky = 0
    /\ log[k].advance /\ FiredOnText(k, e.uid)
    /\ Advancing(k + 1, b) /\ KeywordIn(e, k + 1, b)

C3_StickyPersistsN ==
    \A i \in 1..Len(database.entries) : \A k \in 1..Len(log) :
        LET e == database.entries[i]
            b == Min(Len(log), k + e.sticky + 1)
        IN  ( /\ Plain(e) /\ e.sticky >= 1 /\ e.cooldown = 0
              /\ log[k].advance /\ FiredOnText(k, e.uid)
              /\ Advancing(k + 1, b) /\ KeywordAbsent(e, k + 1, b) )
            => /\ \A j \in (k + 1)..Min(b, k + e.sticky) : InResult(j, e.uid)
               /\ b = k + e.sticky + 1 => ~InResult(b, e.uid)

\* C4: from a fresh ScanState, with advancing scans only and matching texts, a
\* rule with delay = D > 0, cooldown = 0 and probability 100 is absent from the
\* results of scans 1..D-1 and in the result of scan D and of every later scan.
C4_DelayGate ==
    \A i \in 1..Len(database.entries) : \A j \in 1..Len(log) :
        LET e == database.entries[i]
        IN  ( /\ Plain(e) /\ e.delay > 0 /\ e.cooldown = 0
              /\ Advancing(1, j) /\ KeywordIn(e, 1, j) )
            => (InResult(j, e.uid) <=> j >= e.delay)

\* delay = 2: held back at scan 1, in the result of scans 2 and 3
C4_Witness ==
    /\ Len(log) >= 3
    /\ LET e == database.entries[1]
       IN  /\ Plain(e) /\ e.delay = 2 /\ e.cooldown = 0
           /\ Advancing(1, 3) /\ KeywordIn(e, 1, 3)
           /\ ~InResult(1, e.uid) /\ InResult(2, e.uid) /\ InResult(3, e.uid)

(***************************************************************************)
(* The recursive re-scan (SpecDeep)                                        *)
(***************************************************************************)
\* idx occurs in the list of store positions seq
InSeq(idx, seq) == \E p \in 1..Len(seq) : seq[p] = idx

\* neither the delay nor a cooldown holds e back in the ScanState st
Unblocked(e, st) ==
    /\ e.delay = 0 \/ st.message_count >= e.delay
    /\ e.uid \notin DOMAIN st.cooldowns

\* C5: with scan_depth >= 2 and three enabled, non-constant rules A, B, C of
\* probability 100, none held back by delay or cooldown, where A's payload
\* holds B's keyword and B's payload holds C's keyword, a scan whose text
\* matches only A's keyword returns A, B and C.  A and B are rules with the
\* default exclude_recursion = false that this scan triggers anew (neither is
\* a sticky carry-over of an earlier scan).
C5_RecursiveChain ==
    \A k \in 1..Len(log) :
        \A ia \in 1..Len(log[k].entries), ib \in 1..Len(log[k].entries),
           ic \in 1..Len(log[k].entries) :
            LET A == log[k].entries[ia]
                B == log[k].entries[ib]
                C == log[k].entries[ic]
                st == log[k].at
            IN  ( /\ ia # ib /\ ib # ic /\ ia # ic
                  /\ log[k].scan_depth >= 2
                  /\ Plain(A) /\ Plain(B) /\ Plain(C)
                  /\ Unblocked(A, st) /\ Unblocked(B, st) /\ Unblocked(C, st)
                  /\ ~A.exclude_recursion /\ ~B.exclude_recursion
                  /\ A.uid \notin DOMAIN st.sticky_active
                  /\ B.uid \notin DOMAIN st.sticky_active
                  /\ B.keysecondary = <<>> /\ C.keysecondary = <<>>
                  /\ MatchesText(A.content, B.key)
                  /\ MatchesText(B.content, C.key)
                  /\ EvaluateTrigger(A, log[k].text)
                  /\ ~MatchesText(log[k].text, B.key)
                  /\ ~MatchesText(log[k].text, C.key) )
                => /\ InResult(k, A.uid) /\ InResult(k, B.uid) /\ InResult(k, C.uid)

\* the chain store at scan_depth 2: the text names only a; a is triggered by
\* the text, b by a's payload and c by b's payload
C5_Witness ==
    /\ Len(log) >= 1
    /\ log[1].scan_depth = 2
    /\ log[1].text = TextK
    /\ Len(log[1].new) = 1 /\ log[1].entries[log[1].new[1]].uid = "a"
    /\ Len(log[1].levels) = 2
    /\ Len(log[1].levels[1]) = 1 /\ log[1].entries[log[1].levels[1][1]].uid = "b"
    /\ Len(log[1].levels[2]) = 1 /\ log[1].entries[log[1].levels[2][1]].uid = "c"
    /\ InResult(1, "a") /\ InResult(1, "b") /\ InResult(1, "c")
    /\ ~InResult(1, "d")

\* in scan j the keys of B match neither the text nor the payload of a rule
\* of the result other than A and B
OnlyViaPayloadOf(A, B, j) ==
    /\ ~MatchesText(log[j].text, B.key)
    /\ \A p \in 1..Len(log[j].result) :
          ResultEntries(j)[p].uid \notin {A.uid, B.uid}
            => ~MatchesText(ResultEntries(j)[p].content, B.key)

\* C6: when rule A has exclude_recursion = true and the keys of a non-constant
\* rule B match A's payload but, in every scan so far, neither the scanned
\* text nor the payload of any other activated rule, B is in no scan result,
\* also where A itself is activated, for every scan_depth 0..5.
C6_ExcludeRecursion ==
    \A ia \in 1..Len(database.entries), ib \in 1..Len(database.entries) :
        LET A == database.entries[ia]
            B == database.entries[ib]
        IN  ( /\ ia # ib
              /\ A.exclude_recursion
              /\ ~B.constant
              /\ MatchesText(A.content, B.key) )
            => \A k \in 1..Len(log) :
                  (\A j \in 1..k : OnlyViaPayloadOf(A, B, j)) => ~InResult(k, B.uid)

\* a with exclude_recursion is triggered by the text at the largest
\* scan_depth, its payload names b, and b is not in the result
C6_Witness ==
    /\ Len(log) >= 1
    /\ log[1].scan_depth = MaxScanDepth
    /\ \E ia \in 1..Len(log[1].entries), ib \in 1..Len(log[1].entries) :
          /\ log[1].entries[ia].uid = "a" /\ log[1].entries[ib].uid = "b"
          /\ log[1].entries[ia].exclude_recursion
          /\ MatchesText(log[1].entries[ia].content, log[1].entries[ib].key)
          /\ InSeq(ia, log[1].new)
          /\ OnlyViaPayloadOf(log[1].entries[ia], log[1].entries[ib], 1)
          /\ ~InResult(1, "b")

\* the uids of the store scanned by scan k are pairwise distinct
DistinctUids(k) ==
    \A i \in 1..Len(log[k].entries), j \in 1..Len(log[k].entries) :
        i # j => log[k].entries[i].uid # log[k].entries[j].uid

\* C7: over a store of distinct uids the list a scan returns holds each rule
\* at most once, whatever seeding, sticky carry-over, text matching and
\* recursive re-scanning produced it.
C7_NoDuplicates ==
    \A k \in 1..Len(log) :
        DistinctUids(k)
        => \A p \in 1..Len(log[k].result), q \in 1..Len(log[k].result) :
              p # q => ResultEntries(k)[p].uid # ResultEntries(k)[q].uid

\* mutually referencing rules: a triggered by the text, b by a's payload, and
\* b's payload, which holds a's keyword, is scanned at the next level; b was
\* also carried over as sticky into a later scan whose text names it
C7_Witness ==
    /\ Len(log) = 2
    /\ log[1].text = TextK
    /\ \E ia \in 1..Len(log[1].entries), ib \in 1..Len(log[1].entries) :
          /\ log[1].entries[ia].uid = "a" /\ log[1].entries[ib].uid = "b"
          /\ InSeq(ia, log[1].new)
          /\ Len(log[1].levels) >= 2 /\ InSeq(ib, log[1].levels[1])
          /\ MatchesText(log[1].entries[ib].content, log[1].entries[ia].key)
          /\ MatchesText(log[1].entries[ia].content, log[1].entries[ib].key)
          /\ log[2].text = TextB /\ InSeq(ib, log[2].carried)
    /\ Len(log[1].result) >= 3

RECURSIVE Reach(_, _, _)
\* the store positions of the rules without secondary keys that the text
\* triggers (n = 0) or that are at most n payload links away from such a rule
Reach(es, text, n) ==
    IF n = 0 THEN {i \in 1..Len(es) : EvaluateTrigger(es[i], text)}
    ELSE LET R == Reach(es, text, n - 1)
         IN  R \cup {i \in 1..Len(es) : \E j \in R : MatchesText(es[j].content, es[i].key)}

\* C8: every scan call that returned made at most scan_depth recursive passes
\* over payload text (none when scan_depth = 0), so a rule that the text
\* reaches only through a payload chain of more than scan_depth links (and
\* that is neither constant nor carried over as sticky) is not in the result.
C8_DepthBound ==
    \A k \in 1..Len(log) :
        /\ Len(log[k].levels) <= log[k].scan_depth
        /\ \A p \in 1..Len(log[k].result) :
              \/ InSeq(log[k].result[p], log[k].const)
              \/ InSeq(log[k].result[p], log[k].carried)
              \/ log[k].result[p] \in Reach(log[k].entries, log[k].text, log[k].scan_depth)

\* the chain a -> b -> c -> d scanned at scan_depth 2 on a text naming a: two
\* passes, c found by the second, and d, three links away, left out
C8_Witness ==
    /\ Len(log) >= 1
    /\ log[1].scan_depth = 2
    /\ Len(log[1].levels) = 2
    /\ \E ic \in 1..Len(log[1].entries), id \in 1..Len(log[1].entries) :
          /\ log[1].entries[ic].uid = "c" /\ log[1].entries[id].uid = "d"
          /\ InSeq(ic, log[1].levels[2])
          /\ MatchesText(log[1].entries[ic].content, log[1].entries[id].key)
          /\ id \in Reach(log[1].entries, log[1].text, 3)
          /\ id \notin Reach(log[1].entries, log[1].text, 2)
          /\ ~InSeq(id, log[1].result)

\* where scan k found the entry at store position idx: 0 among the constant
\* rules, 1 among the sticky carry-overs, 2 on the text, 2 + d at recursion
\* depth d; -1 if nowhere
Discovery(k, idx) ==
    IF InSeq(idx, log[k].const) THEN 0
    ELSE IF InSeq(idx, log[k].carried) THEN 1
    ELSE IF InSeq(idx, log[k].new) THEN 2
    ELSE IF \E d \in 1..Len(log[k].levels) : InSeq(idx, log[k].levels[d])
         THEN 2 + (CHOOSE d \in 1..Len(log[k].levels) : InSeq(idx, log[k].levels[d]))
    ELSE -1

\* C9: the list a scan returns is sorted ascending by order, and rules of
\* equal order are in discovery order: constant rules, then sticky carry-overs,
\* then rules matched on the text, then recursively matched rules level by
\* level, each group in store order.
C9_SortedStable ==
    \A k \in 1..Len(log) :
        /\ \A p \in 1..Len(log[k].result) : Discovery(k, log[k].result[p]) >= 0
        /\ \A p \in 1..Len(log[k].result), q \in 1..Len(log[k].result) :
              p < q
              => LET x == log[k].result[p]
                     y == log[k].result[q]
                 IN  /\ log[k].entries[x].order <= log[k].entries[y].order
                     /\ log[k].entries[x].order = log[k].entries[y].order
                          => \/ Discovery(k, x) < Discovery(k, y)
                             \/ Discovery(k, x) = Discovery(k, y) /\ x < y

\* four rules of equal order found in the four ways, returned in discovery
\* order although the store holds them in the opposite order
C9_Witness ==
    /\ Len(log) = 2
    /\ Len(log[2].result) = 4
    /\ Discovery(2, log[2].result[1]) = 0
    /\ Discovery(2, log[2].result[2]) = 1
    /\ Discovery(2, log[2].result[3]) = 2
    /\ Discovery(2, log[2].result[4]) = 3
    /\ \A p \in 1..4 : log[2].entries[log[2].result[p]].order = 100
    /\ log[2].result[3] > log[2].result[4]

(***************************************************************************)
(* Disabled rules (Spec)                                                   *)
(***************************************************************************)
\* C10: a rule whose disabled flag is true at the time of a scan is not in
\* that scan's result, whether it is constant, matched by the text or by a
\* payload, or still has a positive sticky counter.
C10_DisabledNeverReturned ==
    \A k \in 1..Len(log) : \A i \in 1..Len(log[k].entries) :
        log[k].entries[i].disabled => ~InSeq(i, log[k].result)

\* rule a was triggered, then its group was disabled: the next scan finds a
\* with a positive sticky counter and its keyword in the text, and the
\* constant rule c disabled too, and returns neither
C10_Witness ==
    /\ Len(log) = 2
    /\ InResult(1, "a")
    /\ \E ia \in 1..Len(log[2].entries), ic \in 1..Len(log[2].entries) :
          /\ log[2].entries[ia].uid = "a" /\ log[2].entries[ic].uid = "c"
          /\ log[2].entries[ia].disabled /\ ~log[2].entries[ia].constant
          /\ log[2].entries[ia].probability = 100
          /\ IsStickyActive(log[2].at, "a")
          /\ EvaluateTrigger(log[2].entries[ia], log[2].text)
          /\ log[2].entries[ic].disabled /\ log[2].entries[ic].constant
          /\ ~InSeq(ia, log[2].result) /\ ~InSeq(ic, log[2].result)

(***************************************************************************)
(* Constant rules, the probability filter and non-advancing scans          *)
(* (SpecFilter)                                                            *)
(***************************************************************************)
\* C11: an enabled rule with constant = true and probability 100 is in the
\* result of every scan, whatever the text, the tick counter, the rule's
\* delay and cooldown (configured or still counting) and its key list, which
\* may be empty.
C11_ConstantAlwaysReturned ==
    \A k \in 1..Len(log) : \A i \in 1..Len(log[k].entries) :
        LET e == log[k].entries[i]
        IN  (e.constant /\ ~e.disabled /\ e.probability >= 100)
            => InSeq(i, log[k].result)

\* the constant rule e has no keys, a delay the tick counter has not reached
\* and a cooldown; the constant rule a has a delay and a cooldown too; a text
\* without any keyword is scanned with a fresh ScanState and both are returned
C11_Witness ==
    /\ Len(log) >= 1
    /\ log[1].before = FreshScanState /\ log[1].text = TextNone
    /\ \E ia \in 1..Len(log[1].entries), ie \in 1..Len(log[1].entries) :
          /\ log[1].entries[ia].uid = "a" /\ log[1].entries[ie].uid = "e"
          /\ log[1].entries[ia].constant /\ log[1].entries[ia].probability = 100
          /\ log[1].entries[ia].delay > log[1].at.message_count
          /\ log[1].entries[ia].cooldown > 0
          /\ log[1].entries[ie].constant /\ log[1].entries[ie].key = <<>>
          /\ log[1].entries[ie].delay > log[1].at.message_count
          /\ InSeq(ia, log[1].result) /\ InSeq(ie, log[1].result)

\* C13: a rule with probability <= 0 is in no scan result, whether it is
\* constant, sticky-active or matched by the text; an enabled rule with
\* probability >= 100 is never dropped: it is in the result whenever it is
\* constant, sticky-active, or matched while neither delay nor cooldown holds
\* it back.  (Only a probability in 1..99 leaves the outcome to the draw.)
C13_ProbabilityBounds ==
    \A k \in 1..Len(log) : \A i \in 1..Len(log[k].entries) :
        LET e == log[k].entries[i]
            st == log[k].at
        IN  /\ e.probability <= 0 => ~InSeq(i, log[k].result)
            /\ (e.probability >= 100 /\ ~e.disabled)
                 => /\ e.constant => InSeq(i, log[k].result)
                    /\ (~e.constant /\ IsStickyActive(st, e.uid))
                          => InSeq(i, log[k].result)
                    /\ (~e.constant /\ PassesTemporal(e, st)
                          /\ EvaluateTrigger(e, log[k].text))
                          => InSeq(i, log[k].result)

\* two non-advancing scans of the same text with the ScanState kept from
\* before: rule z of probability 0 is sticky-active and matched by the text
\* and in neither result, the constant rule e of probability 100 is in both,
\* and rule a of probability 50 is in the first result and not in the second
C13_Witness ==
    /\ Len(log) = 2
    /\ log[1].before = PersistedScanState
    /\ log[1].text = TextK /\ log[2].text = TextK
    /\ ~log[1].advance /\ ~log[2].advance
    /\ \E ia \in 1..4, ie \in 1..4, iz \in 1..4 :
          /\ log[1].entries[ia].uid = "a" /\ log[1].entries[ie].uid = "e"
          /\ log[1].entries[iz].uid = "z"
          /\ log[1].entries[iz].probability = 0
          /\ IsStickyActive(log[1].at, "z")
          /\ EvaluateTrigger(log[1].entries[iz], log[1].text)
          /\ ~InSeq(iz, log[1].result) /\ ~InSeq(iz, log[2].result)
          /\ log[1].entries[ie].constant /\ log[1].entries[ie].probability = 100
          /\ InSeq(ie, log[1].result) /\ InSeq(ie, log[2].result)
          /\ log[1].entries[ia].probability = 50
          /\ InSeq(ia, log[1].result) /\ ~InSeq(ia, log[2].result)

\* the ScanState scan k left behind
After(k) == IF k = Len(log) THEN state ELSE log[k + 1].before

\* scans k and k + 1 are two non-advancing scans of the same text over the
\* same store, whose rules all have probability 0 or 100
PreviewPair(k) ==
    /\ ~log[k].advance /\ ~log[k + 1].advance
    /\ log[k].text = log[k + 1].text
    /\ log[k].entries = log[k + 1].entries
    /\ \A i \in 1..Len(log[k].entries) : log[k].entries[i].probability \in {0, 100}

\* C14 as stated: two non-advancing scans of the same text in a row, over a
\* store whose rules all have probability 0 or 100, return the same list, and
\* the ScanState after the second equals the ScanState after the first.
C14_PreviewIdempotent ==
    \A k \in 1..(Len(log) - 1) :
        PreviewPair(k)
        => /\ log[k].result = log[k + 1].result
           /\ After(k + 1) = After(k)

\* C14 amended: the same, for a store whose non-constant rules moreover all
\* have cooldown = 0 and sticky = 0: the two calls end the same way (the same
\* list returned) and the ScanState after the second equals the ScanState
\* after the first.
C14_PreviewIdempotentNoTemporal ==
    \A k \in 1..(Len(log) - 1) :
        ( /\ PreviewPair(k)
          /\ \A i \in 1..Len(log[k].entries) :
                ~log[k].entries[i].constant
                => /\ log[k].entries[i].cooldown = 0
                   /\ log[k].entries[i].sticky = 0 )
        => /\ log[k].raised = log[k + 1].raised
           /\ log[k].result = log[k + 1].result
           /\ After(k + 1) = After(k)

\* rule a without cooldown and sticky is matched by the text of two
\* non-advancing scans and rule b by a's payload: both calls return a and b
\* and leave the ScanState as it was
C14_Witness ==
    /\ Len(log) = 2
    /\ PreviewPair(1)
    /\ \A i \in 1..Len(log[1].entries) :
          ~log[1].entries[i].constant
          => log[1].entries[i].cooldown = 0 /\ log[1].entries[i].sticky = 0
    /\ log[1].text = TextK
    /\ InResult(1, "a") /\ InResult(1, "b")
    /\ FiredOnText(1, "a") /\ FiredOnText(2, "a")
    /\ log[1].result = log[2].result
    /\ state = After(1)

(***************************************************************************)
(* Keys, gates and patterns (SpecTrigger)                                  *)
(***************************************************************************)
\* C12: for a rule with an empty primary key list evaluate_trigger returns
\* false on every text, and in the scans that start from a fresh ScanState
\* the rule is in a result only if it is constant.
C12_NoKeysNoTrigger ==
    \A k \in 1..Len(log) : \A i \in 1..Len(log[k].entries) :
        log[k].entries[i].key = <<>>
        => /\ (log[k].op = "evaluate_trigger" /\ log[k].idx = i)
                => ~log[k].raised /\ ~log[k].value
           /\ (log[k].op = "scan" /\ InSeq(i, log[k].result))
                => log[k].entries[i].constant

\* a rule without primary keys whose secondary key is in the text:
\* evaluate_trigger returned false, and the scan of the same text did not
\* return the rule, which is not constant
C12_Witness ==
    /\ Len(log) = 2
    /\ database.entries[1].key = <<>>
    /\ ~database.entries[1].constant
    /\ database.entries[1].keysecondary = <<KeyS>>
    /\ log[1].op = "evaluate_trigger" /\ log[1].text = TextKS
    /\ ~log[1].raised /\ ~log[1].value
    /\ log[2].op = "scan" /\ log[2].text = TextKS
    /\ log[2].result = <<>>

\* the secondary keys of e that match the text, each taken alone
SecondaryHits(e, text) ==
    {j \in 1..Len(e.keysecondary) : KeyMatches(text, e.keysecondary[j])}

\* the reference gate table
GateTable(e, text) ==
    IF ~(\E j \in 1..Len(e.key) : KeyMatches(text, e.key[j])) THEN FALSE
    ELSE IF e.keysecondary = <<>> THEN TRUE
    ELSE CASE e.logic = "and_any" -> SecondaryHits(e, text) # {}
           [] e.logic = "and_all" ->
                Cardinality(SecondaryHits(e, text)) = Len(e.keysecondary)
           [] e.logic = "not_any" -> SecondaryHits(e, text) = {}
           [] e.logic = "not_all" ->
                Cardinality(SecondaryHits(e, text)) < Len(e.keysecondary)

\* C16: evaluate_trigger equals the reference gate table for every text and
\* key configuration: false when no primary key matches; true when one does
\* and there are no secondary keys; otherwise and_any iff some secondary key
\* matches, and_all iff every one does, not_any iff none does, not_all iff at
\* least one does not.
C16_GateTable ==
    \A k \in 1..Len(log) :
        log[k].op = "evaluate_trigger"
        => /\ ~log[k].raised
           /\ log[k].value = GateTable(log[k].entries[log[k].idx], log[k].text)

\* the calls of evaluate_trigger that return agree with the gate table
GateTableWhenReturning ==
    \A k \in 1..Len(log) :
        (log[k].op = "evaluate_trigger" /\ ~log[k].raised)
        => log[k].value = GateTable(log[k].entries[log[k].idx], log[k].text)

\* key is a regex literal that parse_regex_key does not turn into a pattern
InvalidRegexKey(key) == IsRegexKey(key) /\ ~ParseRegexKey(key).ok

\* C17: a key that is a regex literal with an invalid pattern never matches
\* and never raises: every call of matches_text, evaluate_trigger and scan
\* over a rule with such a key returns, and a rule whose only primary key is
\* such a pattern is not matched and not activated by text matching.
C17_InvalidRegexNeverRaises ==
    \A k \in 1..Len(log) : \A i \in 1..Len(log[k].entries) :
        LET e == log[k].entries[i]
        IN  /\ (\E j \in 1..Len(e.key) : InvalidRegexKey(e.key[j]))
                 => ~log[k].raised
            /\ (\E j \in 1..Len(e.keysecondary) : InvalidRegexKey(e.keysecondary[j]))
                 => ~log[k].raised
            /\ (Len(e.key) = 1 /\ InvalidRegexKey(e.key[1]))
                 => IF log[k].op = "scan"
                    THEN ~InSeq(i, log[k].new) /\ ~InSeq(i, Flatten(log[k].levels))
                    ELSE log[k].idx = i => ~log[k].value

\* the calls over a rule whose only invalid patterns are those re.compile
\* rejects with re.error return, and the pattern matches nothing
InvalidRegexWithReError ==
    \A k \in 1..Len(log) : \A i \in 1..Len(log[k].entries) :
        LET e == log[k].entries[i]
        IN  ( /\ \A j \in 1..Len(e.key) : ~KeyRaises(e.key[j])
              /\ \A j \in 1..Len(e.keysecondary) : ~KeyRaises(e.keysecondary[j]) )
            => /\ ~log[k].raised
               /\ (Len(e.key) = 1 /\ InvalidRegexKey(e.key[1]))
                    => IF log[k].op = "scan"
                       THEN ~InSeq(i, log[k].new) /\ ~InSeq(i, Flatten(log[k].levels))
                       ELSE log[k].idx = i => ~log[k].value

(***************************************************************************)
(* The store's entry list (SpecStore)                                      *)
(***************************************************************************)
\* C18: after any sequence of add_entry and delete_entry operations no two
\* entries of the store have the same identifier.
C18_UniqueUids ==
    \A i \in 1..Len(database.entries), j \in 1..Len(database.entries) :
        i # j => database.entries[i].uid # database.entries[j].uid

\* the uids of the entries es
EntryUids(es) == {es[i].uid : i \in 1..Len(es)}

\* C19: delete_entry and get_entry with an identifier that is not in the
\* store report not-found (False, None) and leave the entries and their order
\* as they were; delete_entry with an identifier that is in the store returns
\* True and removes one entry with it, the first one, every other entry
\* staying in its place relative to the others.
C19_LookupAndDelete ==
    \A k \in 1..Len(log) :
        LET es == log[k].entries
            uid == log[k].arg
        IN  /\ (log[k].op = "get_entry" /\ uid \notin EntryUids(es))
                 => log[k].value = 0 /\ log[k].after = es
            /\ (log[k].op = "delete_entry" /\ uid \notin EntryUids(es))
                 => log[k].value = FALSE /\ log[k].after = es
            /\ (log[k].op = "delete_entry" /\ uid \in EntryUids(es))
                 => /\ log[k].value = TRUE
                    /\ Len(log[k].after) = Len(es) - 1
                    /\ \E i \in 1..Len(es) :
                          /\ es[i].uid = uid
                          /\ \A j \in 1..(i - 1) : es[j].uid # uid /\ log[k].after[j] = es[j]
                          /\ \A j \in (i + 1)..Len(es) : log[k].after[j - 1] = es[j]

\* on the store a, b, c: get_entry and delete_entry of the unknown uid n
\* report not-found and change nothing, then delete_entry of b returns True
\* and leaves a, c in this order
C19_Witness ==
    /\ Len(log) = 3
    /\ Len(log[1].entries) = 3
    /\ log[1].op = "get_entry" /\ log[1].arg = "n" /\ log[1].value = 0
    /\ log[2].op = "delete_entry" /\ log[2].arg = "n" /\ log[2].value = FALSE
    /\ log[2].after = log[1].entries
    /\ log[3].op = "delete_entry" /\ log[3].arg = "b" /\ log[3].value = TRUE
    /\ Len(database.entries) = 2
    /\ database.entries[1].uid = "a" /\ database.entries[2].uid = "c"

(***************************************************************************)
(* What a scan writes (SpecDeep)                                           *)
(***************************************************************************)
\* C20: a scan never modifies the store: across every scan call, advancing or
\* not, with or without recursion, the entry list, its order, every field of
\* every rule and scan_depth are what they were before the call.
C20_ScanKeepsStore ==
    [][Len(log') > Len(log) => database' = database]_vars

\* an advancing scan that recursed two levels deep and set a sticky counter,
\* then a non-advancing one; the store is still the one the first scan saw,
\* while the ScanState is not
C20_Witness ==
    /\ Len(log) = 2
    /\ log[1].advance /\ ~log[2].advance
    /\ Len(log[1].levels) >= 2 /\ log[1].levels[2] # <<>>
    /\ log[1].before.sticky_active # state.sticky_active
    /\ state.message_count = 1
    /\ database.entries = log[1].entries
    /\ database.scan_depth = log[1].scan_depth
    /\ \E i \in 1..(Len(database.entries) - 1) :
          database.entries[i].order > database.entries[i + 1].order

(***************************************************************************)
(* Interleaved scans (SpecThreads)                                         *)
(***************************************************************************)
\* the draws of a store whose rules all have probability 100
NoDraws(db) == CHOOSE draws \in DrawChoices(db) : TRUE

\* the two calls ended as they do when call t runs to its end before call u
\* starts
SerialOrder(t, u) ==
    LET first == ScanCall(database, log[t].text, log[t].advance, log[t].st0,
                          NoDraws(database))
        second == ScanCall(database, log[u].text, log[u].advance, first.st,
                           NoDraws(database))
    IN  /\ log[t].result = first.result
        /\ log[u].result = second.result
        /\ state = second.st

\* no call raises
NoCallRaises == \A t \in Calls : log[t].pc # "error"

\* the calls that both return end as in a serial order
SerialWhenBothReturn ==
    (\A t \in Calls : log[t].pc = "done") => SerialOrder(1, 2) \/ SerialOrder(2, 1)

\* C15: when two scan calls that share one ScanState and one store interleave
\* statement by statement, neither call raises, and once both have returned
\* the two results and the final ScanState are those of one of the two serial
\* orders of the calls.
C15_ThreadSafe == NoCallRaises /\ SerialWhenBothReturn

(***************************************************************************)
(* The ScanState methods (SpecState)                                       *)
(***************************************************************************)
\* the counter dict after is the counter dict before with every counter
\* lowered by one and exactly the counters that reached 0 or less removed
Decremented(before, after) ==
    /\ DOMAIN after \subseteq DOMAIN before
    /\ \A u \in DOMAIN before :
          /\ u \in DOMAIN after <=> before[u] - 1 > 0
          /\ u \in DOMAIN after => after[u] = before[u] - 1

\* C21: advance_message raises message_count by exactly 1, lowers every
\* cooldown counter and every sticky counter by exactly 1 and removes exactly
\* the uids whose counter thereby becomes <= 0; a uid that is not a key of a
\* dict before the call is not one after it.
C21_AdvanceMessage ==
    \A k \in 1..Len(log) :
        log[k].op = "advance_message"
        => /\ After(k).message_count = log[k].before.message_count + 1
           /\ Decremented(log[k].before.cooldowns, After(k).cooldowns)
           /\ Decremented(log[k].before.sticky_active, After(k).sticky_active)

\* advance_message called with a cooldown counter at 1, which it removes, and
\* sticky counters at 1 and above, of which it removes the first and lowers
\* the second
C21_Witness ==
    \E k \in 1..Len(log) :
        /\ log[k].op = "advance_message"
        /\ \E u \in DOMAIN log[k].before.cooldowns :
              log[k].before.cooldowns[u] = 1 /\ u \notin DOMAIN After(k).cooldowns
        /\ \E u, v \in DOMAIN log[k].before.sticky_active :
              /\ log[k].before.sticky_active[u] = 1
              /\ u \notin DOMAIN After(k).sticky_active
              /\ log[k].before.sticky_active[v] > 1
              /\ v \in DOMAIN After(k).sticky_active

\* the scans among the first k calls that advanced the ScanState, and the
\* direct calls of advance_message among them
AdvancingCalls(k) ==
    {j \in 1..k : \/ log[j].op = "scan" /\ log[j].advance
                  \/ log[j].op = "advance_message"}

\* the rule at store position i was newly triggered by scan k, on the text or
\* in a recursive pass
NewlyTriggered(k, i) == InSeq(i, log[k].new) \/ InSeq(i, Flatten(log[k].levels))

\* scan k lowered no counter of this dict: each counter is as before, or is
\* the configured value of a rule the scan newly triggered
NothingLowered(k, before, after, field) ==
    \A u \in DOMAIN before :
        /\ u \in DOMAIN after
        /\ \/ after[u] = before[u]
           \/ \E i \in 1..Len(log[k].entries) :
                 /\ log[k].entries[i].uid = u
                 /\ NewlyTriggered(k, i)
                 /\ after[u] = log[k].entries[i][field]

\* C22: message_count never decreases and, from a fresh ScanState, equals the
\* number of advancing scans performed (direct advance_message calls counted
\* with them); an advancing scan raises it by exactly 1 however many recursive
\* passes run, a non-advancing scan leaves it unchanged and lowers no cooldown
\* or sticky counter.
C22_TickCounter ==
    /\ state.message_count = Cardinality(AdvancingCalls(Len(log)))
    /\ \A k \in 1..Len(log) :
          /\ After(k).message_count >= log[k].before.message_count
          /\ log[k].op = "scan" =>
                /\ log[k].advance
                     => After(k).message_count = log[k].before.message_count + 1
                /\ ~log[k].advance
                     => /\ After(k).message_count = log[k].before.message_count
                        /\ NothingLowered(k, log[k].before.cooldowns,
                                          After(k).cooldowns, "cooldown")
                        /\ NothingLowered(k, log[k].before.sticky_active,
                                          After(k).sticky_active, "sticky")

\* an advancing scan with two recursive passes, then a non-advancing scan that
\* finds cooldown and sticky counters and leaves them as they are
C22_Witness ==
    /\ Len(log) = 3
    /\ log[1].op = "advance_message"
    /\ log[2].op = "scan" /\ log[2].advance
    /\ Len(log[2].levels) = 2 /\ log[2].levels[2] # <<>>
    /\ log[3].op = "scan" /\ ~log[3].advance
    /\ log[3].before.message_count = 2 /\ state.message_count = 2
    /\ DOMAIN log[3].before.cooldowns # {}
    /\ DOMAIN log[3].before.sticky_active # {}
    /\ state = log[3].before

\* the dict after is the dict before with the counter of uid set to turns
\* and nothing else touched
OnlySet(before, after, uid, turns) ==
    /\ DOMAIN after = DOMAIN before \cup {uid}
    /\ after[uid] = turns
    /\ \A u \in DOMAIN before : u # uid => after[u] = before[u]

\* C23: set_cooldown(uid, n) and refresh_sticky(uid, n) leave the whole
\* ScanState as it is when n <= 0, a counter the uid already has included;
\* when n > 0 they set the counter of uid to exactly n whatever it was before,
\* and leave the counters of the other uids, the other dict and message_count
\* as they are.
C23_SetCounters ==
    \A k \in 1..Len(log) :
        /\ (log[k].op \in {"set_cooldown", "refresh_sticky"} /\ log[k].turns <= 0)
              => After(k) = log[k].before
        /\ (log[k].op = "set_cooldown" /\ log[k].turns > 0)
              => /\ OnlySet(log[k].before.cooldowns, After(k).cooldowns,
                            log[k].uid, log[k].turns)
                 /\ After(k).sticky_active = log[k].before.sticky_active
                 /\ After(k).message_count = log[k].before.message_count
        /\ (log[k].op = "refresh_sticky" /\ log[k].turns > 0)
              => /\ OnlySet(log[k].before.sticky_active, After(k).sticky_active,
                            log[k].uid, log[k].turns)
                 /\ After(k).cooldowns = log[k].before.cooldowns
                 /\ After(k).message_count = log[k].before.message_count

\* after a scan that left counters for rules a and b: set_cooldown with 0 on
\* the cooldown counter of b, which stays, then refresh_sticky with 1 on the
\* sticky counter of b, which was larger and becomes 1
C23_Witness ==
    /\ Len(log) = 3
    /\ log[2].op = "set_cooldown" /\ log[2].turns = 0
    /\ log[2].uid \in DOMAIN log[2].before.cooldowns
    /\ log[3].before = log[2].before
    /\ log[3].op = "refresh_sticky" /\ log[3].turns = 1
    /\ log[3].uid \in DOMAIN log[3].before.sticky_active
    /\ log[3].before.sticky_active[log[3].uid] > 1
    /\ state.sticky_active[log[3].uid] = 1
    /\ DOMAIN state.cooldowns \ {log[3].uid} # {}
    /\ state.message_count = 1

(***************************************************************************)
(* Activation and the counters (SpecState)                                 *)
(***************************************************************************)
\* the rule at store position i is in the store of scan k
RuleOf(k, i) == log[k].entries[i]

\* the rule at store position i was activated in a recursive pass of scan k
ViaPayload(k, i) == InSeq(i, Flatten(log[k].levels))

\* C24: a rule newly activated by matching, on the scanned text or in a
\* recursive pass on payload text, has when the scan returns a cooldown counter
\* equal to its configured cooldown (if > 0) and a sticky counter equal to its
\* configured sticky (if > 0); the recursive passes apply the cooldown and
\* delay checks of the text pass, so no rule that is on cooldown or before its
\* delay is activated through the payload of another rule.
C24_ActivationSetsCounters ==
    \A k \in 1..Len(log) :
        (log[k].op = "scan" /\ ~log[k].raised)
        => \A i \in 1..Len(log[k].entries) :
              /\ NewlyTriggered(k, i)
                   => /\ RuleOf(k, i).cooldown > 0
                         => /\ RuleOf(k, i).uid \in DOMAIN After(k).cooldowns
                            /\ After(k).cooldowns[RuleOf(k, i).uid] = RuleOf(k, i).cooldown
                      /\ RuleOf(k, i).sticky > 0
                         => /\ RuleOf(k, i).uid \in DOMAIN After(k).sticky_active
                            /\ After(k).sticky_active[RuleOf(k, i).uid] = RuleOf(k, i).sticky
              /\ ViaPayload(k, i)
                   => /\ ~IsOnCooldown(log[k].at, RuleOf(k, i).uid)
                      /\ ~(RuleOf(k, i).delay > 0
                           /\ log[k].at.message_count < RuleOf(k, i).delay)

\* rule a newly triggered by the text while rule b, which its payload names,
\* is on cooldown and stays out; then a scan in which a triggers b through its
\* payload, b gets both counters, and c, which the payload of b names, is
\* before its delay and stays out
C24_Witness ==
    /\ Len(log) = 3
    /\ log[1].op = "set_cooldown" /\ log[1].uid = "b" /\ log[1].turns = 1
    /\ log[2].op = "scan" /\ ~log[2].advance
    /\ \E i, j \in 1..Len(log[2].entries) :
          /\ RuleOf(2, i).uid = "a" /\ InSeq(i, log[2].new)
          /\ RuleOf(2, j).uid = "b" /\ ~InSeq(j, log[2].result)
    /\ log[3].op = "scan" /\ log[3].advance /\ log[3].at.message_count < MaxDelay
    /\ \E i, j, l \in 1..Len(log[3].entries) :
          /\ RuleOf(3, i).uid = "a" /\ InSeq(i, log[3].new)
          /\ RuleOf(3, j).uid = "b" /\ ViaPayload(3, j)
          /\ state.cooldowns["b"] = RuleOf(3, j).cooldown
          /\ state.sticky_active["b"] = RuleOf(3, j).sticky
          /\ RuleOf(3, l).uid = "c" /\ ~InSeq(l, log[3].result)

(***************************************************************************)
(* What feeds the recursive re-scan (SpecFilter)                           *)
(***************************************************************************)
\* the store scan k saw
StoreOf(k) == [entries |-> log[k].entries, scan_depth |-> log[k].scan_depth]

\* the rules whose payload pass d of the recursive scan of scan k reads: the
\* rules newly triggered on the text, then those found by the pass before
Feeders(k, d) == IF d = 1 THEN log[k].new ELSE log[k].levels[d - 1]

\* the payload text pass d of the recursive scan of scan k reads
PassText(k, d) == CombinedContent(StoreOf(k), Feeders(k, d), 1)

\* neither the text of scan k nor the text of any of its recursive passes
\* triggers the rule at store position i
MatchedByNoPass(k, i) ==
    /\ ~EvaluateTrigger(RuleOf(k, i), log[k].text)
    /\ \A d \in 1..Len(log[k].levels) : ~EvaluateTrigger(RuleOf(k, i), PassText(k, d))

\* the payload of a constant or carried-over rule in the result of scan k
\* triggers the rule at store position i
NamedBySeeded(k, i) ==
    \E p \in 1..Len(log[k].const \o log[k].carried) :
        EvaluateTrigger(RuleOf(k, i),
                        RuleOf(k, (log[k].const \o log[k].carried)[p]).content)

\* C25: only the rules newly triggered by matching feed the recursive re-scan;
\* the payload of a constant rule and that of a rule carried over as sticky are
\* never scanned, so a rule whose keys occur only in such payloads is not in
\* the result.
C25_OnlyNewFeedRecursion ==
    \A k \in 1..Len(log) :
        (log[k].op = "scan" /\ ~log[k].raised)
        => \A i \in 1..Len(log[k].entries) :
              ( /\ ~InSeq(i, log[k].const) /\ ~InSeq(i, log[k].carried)
                /\ NamedBySeeded(k, i)
                /\ MatchedByNoPass(k, i) )
              => ~InSeq(i, log[k].result)

\* a scan that returns a constant rule and a carried-over rule whose payloads
\* both name rule b, and does not return b
C25_Witness ==
    \E k \in 1..Len(log) : \E i, j, l \in 1..Len(log[k].entries) :
        /\ log[k].op = "scan" /\ ~log[k].raised
        /\ InSeq(j, log[k].const) /\ InSeq(l, log[k].carried)
        /\ InSeq(j, log[k].result) /\ InSeq(l, log[k].result)
        /\ EvaluateTrigger(RuleOf(k, i), RuleOf(k, j).content)
        /\ EvaluateTrigger(RuleOf(k, i), RuleOf(k, l).content)
        /\ ~RuleOf(k, i).disabled /\ ~RuleOf(k, i).constant
        /\ PassesTemporal(RuleOf(k, i), log[k].at)
        /\ MatchedByNoPass(k, i)
        /\ ~InSeq(i, log[k].result)

(***************************************************************************)
(* Keys that are no regex literal (SpecSlash)                              *)
(***************************************************************************)
\* the key has the form /pattern/flags: a slash, a non-empty pattern, a slash
\* and flag characters only
WellFormedLiteral(key) ==
    /\ IsRegexKey(key)
    /\ GroupsMatch(RegexGroups(DropFinalNewline(key), LastSlash(DropFinalNewline(key))))

\* call k matched the one key of its rule as a case-insensitive substring
MatchedAsSubstring(k) ==
    /\ ~log[k].raised
    /\ log[k].value = Contains(Lower(log[k].text), Lower(log[k].entries[log[k].idx].key[1]))

\* the keys that do not start with a slash or hold no second one are matched
\* as case-insensitive substrings
PlainKeysAsSubstring ==
    \A k \in 1..Len(log) :
        ~IsRegexKey(log[k].entries[log[k].idx].key[1]) => MatchedAsSubstring(k)

\* so are the keys that start with a slash and hold a second one but do not
\* have the form /pattern/flags
MalformedLiteralsAsSubstring ==
    \A k \in 1..Len(log) :
        ( /\ IsRegexKey(log[k].entries[log[k].idx].key[1])
          /\ ~WellFormedLiteral(log[k].entries[log[k].idx].key[1]) )
        => MatchedAsSubstring(k)

\* C26: every key that is not a well-formed /pattern/flags literal is matched
\* as a case-insensitive literal substring, the keys included that begin with
\* a slash and hold a later slash but whose tail is no flag string: such a
\* path-like key matches every text that contains it.
C26_LiteralFallback == PlainKeysAsSubstring /\ MalformedLiteralsAsSubstring

(***************************************************************************)
(* Sticky carry-over (SpecFilter)                                          *)
(***************************************************************************)
\* the rule at store position i was re-added by scan k as sticky
Carried(k, i) == InSeq(i, log[k].carried)

\* the counter of uid is the same in both dicts, or absent from both
SameCounter(before, after, uid) ==
    /\ uid \in DOMAIN before <=> uid \in DOMAIN after
    /\ uid \in DOMAIN before => after[uid] = before[uid]

\* a scan that carries a rule over leaves its sticky counter and its cooldown
\* counter as advance_message left them, whatever the text
CarriedKeepsCounters ==
    \A k \in 1..Len(log) :
        (log[k].op = "scan" /\ ~log[k].raised)
        => \A i \in 1..Len(log[k].entries) :
              Carried(k, i)
              => /\ ~NewlyTriggered(k, i)
                 /\ SameCounter(log[k].at.sticky_active, After(k).sticky_active,
                                RuleOf(k, i).uid)
                 /\ SameCounter(log[k].at.cooldowns, After(k).cooldowns,
                                RuleOf(k, i).uid)

\* the rule at store position i gets its sticky counter set by scan k only
\* when the counter has expired
ResetOnlyAfterExpiry(k, i) ==
    (NewlyTriggered(k, i) /\ RuleOf(k, i).sticky > 0)
    => ~IsStickyActive(log[k].at, RuleOf(k, i).uid)

\* C27 as stated: a rule that a scan re-adds through sticky carry-over is
\* excluded from that scan's text matching, so the scan neither refreshes its
\* sticky counter nor sets its cooldown even when the text matches its keys;
\* the sticky counter of a rule keeps counting down from the original trigger
\* and is re-set only by a match in a scan after it has expired.
C27_CarriedNotRefreshed ==
    /\ CarriedKeepsCounters
    /\ \A k \in 1..Len(log) :
          (log[k].op = "scan" /\ ~log[k].raised)
          => \A i \in 1..Len(log[k].entries) : ResetOnlyAfterExpiry(k, i)

\* C27 amended: the same, the re-set only after expiry claimed for the rules
\* of probability 100 alone.
C27_CarriedNotRefreshedCertain ==
    /\ CarriedKeepsCounters
    /\ \A k \in 1..Len(log) :
          (log[k].op = "scan" /\ ~log[k].raised)
          => \A i \in 1..Len(log[k].entries) :
                RuleOf(k, i).probability = 100 => ResetOnlyAfterExpiry(k, i)

\* a rule of probability 100 carried over by a scan whose text matches its
\* keys, its sticky counter below the configured value and left there; the
\* next scan finds the counter expired and sets it again
C27_Witness ==
    /\ Len(log) = 2
    /\ \E i \in 1..Len(log[1].entries) :
          /\ RuleOf(1, i).probability = 100
          /\ Carried(1, i) /\ EvaluateTrigger(RuleOf(1, i), log[1].text)
          /\ log[2].before.sticky_active[RuleOf(1, i).uid] < RuleOf(1, i).sticky
          /\ ~IsStickyActive(log[2].at, RuleOf(1, i).uid)
          /\ InSeq(i, log[2].new)
          /\ state.sticky_active[RuleOf(1, i).uid] = RuleOf(1, i).sticky

\* C28: sticky carry-over ignores cooldown and delay: an enabled, non-constant
\* rule of probability 100 whose sticky counter is positive is in the result
\* of the scan, also while its cooldown counter is positive, so a rule with
\* both sticky and cooldown set keeps appearing during its cooldown window.
C28_StickyIgnoresCooldown ==
    \A k \in 1..Len(log) :
        (log[k].op = "scan" /\ ~log[k].raised)
        => \A i \in 1..Len(log[k].entries) :
              ( /\ Plain(RuleOf(k, i))
                /\ RuleOf(k, i).uid \in DOMAIN log[k].at.sticky_active
                /\ log[k].at.sticky_active[RuleOf(k, i).uid] > 0 )
              => InSeq(i, log[k].result)

\* a rule with a positive sticky counter returned by a scan while it is on
\* cooldown and before its delay, and returned by the next scan while it is on
\* cooldown and past its delay
C28_Witness ==
    /\ Len(log) = 2
    /\ \E i \in 1..Len(log[1].entries) :
          /\ Plain(RuleOf(1, i))
          /\ IsOnCooldown(log[1].at, RuleOf(1, i).uid)
          /\ log[1].at.message_count < RuleOf(1, i).delay
          /\ log[1].at.sticky_active[RuleOf(1, i).uid] > 0
          /\ Carried(1, i) /\ InSeq(i, log[1].result)
          /\ log[2].advance
          /\ IsOnCooldown(log[2].at, RuleOf(1, i).uid)
          /\ log[2].at.message_count >= RuleOf(1, i).delay
          /\ Carried(2, i) /\ InSeq(i, log[2].result)

(***************************************************************************)
(* The counters kept in the ScanState (SpecState)                          *)
(***************************************************************************)
\* the counters were written by scans only: no call so far was a direct
\* set_cooldown or refresh_sticky
WrittenByScansOnly ==
    \A k \in 1..Len(log) : log[k].op \notin {"set_cooldown", "refresh_sticky"}

\* the uids of the rules of the store and those handed to the methods
KnownUids == {database.entries[i].uid : i \in 1..Len(database.entries)} \cup StateUids

\* C29: in every state reached from a fresh ScanState by advance_message,
\* set_cooldown, refresh_sticky and scan calls every counter in the cooldown
\* and sticky dicts is >= 1, so is_on_cooldown(uid) and is_sticky_active(uid)
\* are true exactly when uid is a key of the dict; and when the counters are
\* written by scans only, the counter of a rule never exceeds the cooldown or
\* sticky value configured for the rule.
C29_CountersPositive ==
    /\ \A u \in DOMAIN state.cooldowns : state.cooldowns[u] >= 1
    /\ \A u \in DOMAIN state.sticky_active : state.sticky_active[u] >= 1
    /\ \A u \in KnownUids :
          /\ IsOnCooldown(state, u) <=> u \in DOMAIN state.cooldowns
          /\ IsStickyActive(state, u) <=> u \in DOMAIN state.sticky_active
    /\ WrittenByScansOnly
          => \A i \in 1..Len(database.entries) :
                /\ database.entries[i].uid \in DOMAIN state.cooldowns
                     => state.cooldowns[database.entries[i].uid]
                           <= database.entries[i].cooldown
                /\ database.entries[i].uid \in DOMAIN state.sticky_active
                     => state.sticky_active[database.entries[i].uid]
                           <= database.entries[i].sticky

\* a scan that set both counters of rule b, then two calls of advance_message:
\* the second finds the cooldown counter at 1 and removes it, and leaves the
\* sticky counter at 1, below the configured value
C29_Witness ==
    /\ Len(log) = 3
    /\ log[1].op = "scan"
    /\ log[2].op = "advance_message" /\ log[3].op = "advance_message"
    /\ "b" \in DOMAIN log[3].before.cooldowns
    /\ log[3].before.cooldowns["b"] = 1
    /\ "b" \notin DOMAIN state.cooldowns /\ ~IsOnCooldown(state, "b")
    /\ IsStickyActive(state, "b") /\ state.sticky_active["b"] = 1
    /\ \E i \in 1..Len(database.entries) :
          database.entries[i].uid = "b" /\ database.entries[i].sticky > 1

(***************************************************************************)
(* Every returned rule is justified (SpecDeep)                             *)
(***************************************************************************)
\* the text of scan k, or the payload text of one of its recursive passes,
\* triggers the rule at store position i
MatchedBySomePass(k, i) ==
    \/ EvaluateTrigger(RuleOf(k, i), log[k].text)
    \/ \E d \in 1..Len(log[k].levels) : EvaluateTrigger(RuleOf(k, i), PassText(k, d))

\* C30: every rule in a scan result is enabled and is constant, or
\* sticky-active at the time of the scan, or not on cooldown, past its delay
\* and triggered by the scanned text or by the combined payload of the
\* non-exclude_recursion rules newly triggered at the level before; a rule
\* found by a recursive pass has its gate evaluated against that combined
\* payload alone, not against the scanned text.
C30_ResultJustified ==
    \A k \in 1..Len(log) :
        (log[k].op = "scan" /\ ~log[k].raised)
        => /\ \A p \in 1..Len(log[k].result) :
                 LET i == log[k].result[p]
                 IN  /\ ~RuleOf(k, i).disabled
                     /\ \/ RuleOf(k, i).constant
                        \/ IsStickyActive(log[k].at, RuleOf(k, i).uid)
                        \/ /\ ~IsOnCooldown(log[k].at, RuleOf(k, i).uid)
                           /\ ~(RuleOf(k, i).delay > 0
                                /\ log[k].at.message_count < RuleOf(k, i).delay)
                           /\ MatchedBySomePass(k, i)
           /\ \A p \in 1..Len(log[k].new) :
                 EvaluateTrigger(RuleOf(k, log[k].new[p]), log[k].text)
           /\ \A d \in 1..Len(log[k].levels) : \A p \in 1..Len(log[k].levels[d]) :
                 EvaluateTrigger(RuleOf(k, log[k].levels[d][p]), PassText(k, d))

\* a scan that finds the gated rule in a recursive pass although the scanned
\* text fails its gate, then a scan whose result holds a constant rule, a
\* carried-over rule that the text does not trigger, a rule triggered by the
\* text and a rule found by a recursive pass
C30_Witness ==
    /\ Len(log) = 2
    /\ log[2].const # <<>> /\ log[2].carried # <<>>
    /\ log[2].new # <<>> /\ Flatten(log[2].levels) # <<>>
    /\ \A p \in 1..Len(log[2].carried) :
          ~EvaluateTrigger(RuleOf(2, log[2].carried[p]), log[2].text)
    /\ \E i \in 1..Len(log[1].entries) :
          /\ RuleOf(1, i).logic = "not_any" /\ RuleOf(1, i).keysecondary # <<>>
          /\ ViaPayload(1, i) /\ InSeq(i, log[1].result)
          /\ ~EvaluateTrigger(RuleOf(1, i), log[1].text)
          /\ MatchesText(log[1].text, RuleOf(1, i).keysecondary)

====
